---- MODULE Spec2Model ----
(***************************************************************************)
(* Quiz session state machine of movie-agent-service:                      *)
(*   QuizState        src/src/movie_agent/memory/quiz_state.py             *)
(*   QuizController   src/src/movie_agent/quiz_controller.py               *)
(*   detect_intent    src/src/movie_agent/intent/agent_intent.py           *)
(*   chat             src/src/movie_agent/service.py                       *)
(* qs is the QuizState of one session; `sessions` holds the maps the       *)
(* service keeps per session id.  Python strings are TLA+ strings, handled *)
(* character by character; Optional[T] is <<>> (None) or <<v>>.            *)
(***************************************************************************)
EXTENDS Integers, Sequences, FiniteSets, TLC

VARIABLES
    qs,            \* the session's QuizState object
    last,          \* the last operation called on the session and what it returned
    calls,         \* handle_answer / advance_to_next_question calls since the last activation
    sessions       \* the service's per-session maps: quiz states, conversation buffers, contexts

vars == <<qs, last, calls, sessions>>

-----------------------------------------------------------------------------
(* Bounds of the model *)

\* longest question list handed to activate_quiz
MaxQuestions == 2
\* most handle_answer / advance_to_next_question calls tracked per activation
MaxCalls == 4

-----------------------------------------------------------------------------
(* Python values *)

None == <<>>
Some(v) == <<v>>

-----------------------------------------------------------------------------
(* str methods used by the code, character by character *)

UpperChars == <<"A","B","C","D","E","F","G","H","I","J","K","L","M",
                "N","O","P","Q","R","S","T","U","V","W","X","Y","Z">>
LowerChars == <<"a","b","c","d","e","f","g","h","i","j","k","l","m",
                "n","o","p","q","r","s","t","u","v","w","x","y","z">>
DigitChars == <<"0","1","2","3","4","5","6","7","8","9">>

CharAt(s, i) == SubSeq(s, i, i)

LowerChar(c) ==
    IF \E i \in 1..26 : UpperChars[i] = c
    THEN LowerChars[CHOOSE i \in 1..26 : UpperChars[i] = c]
    ELSE c

\* str.lower()
RECURSIVE Lower(_)
Lower(s) == IF s = "" THEN "" ELSE LowerChar(Head(s)) \o Lower(Tail(s))

IsSpace(c) == c \in {" ", "\t", "\n"}

RECURSIVE LStrip(_)
LStrip(s) == IF s # "" /\ IsSpace(Head(s)) THEN LStrip(Tail(s)) ELSE s

RECURSIVE RStrip(_)
RStrip(s) ==
    IF s # "" /\ IsSpace(CharAt(s, Len(s))) THEN RStrip(SubSeq(s, 1, Len(s) - 1)) ELSE s

\* str.strip()
Strip(s) == RStrip(LStrip(s))

IsDigit(c) == \E i \in 1..10 : DigitChars[i] = c
DigitVal(c) == (CHOOSE i \in 1..10 : DigitChars[i] = c) - 1

AllDigits(s) == s # "" /\ \A i \in 1..Len(s) : IsDigit(CharAt(s, i))

RECURSIVE DigitsVal(_)
DigitsVal(s) ==
    IF s = "" THEN 0 ELSE 10 * DigitsVal(SubSeq(s, 1, Len(s) - 1)) + DigitVal(CharAt(s, Len(s)))

HasSign(s) == s # "" /\ Head(s) \in {"+", "-"}
Unsigned(s) == IF HasSign(s) THEN Tail(s) ELSE s

\* int(s) succeeds: surrounding whitespace, an optional sign, decimal digits
\* (the inputs of the model hold no underscore and no non-ASCII digit)
IntParses(s) == AllDigits(Unsigned(Strip(s)))

\* int(s), when it succeeds
IntValue(s) ==
    LET t == Strip(s)
    IN  IF HasSign(t) /\ Head(t) = "-" THEN 0 - DigitsVal(Unsigned(t)) ELSE DigitsVal(Unsigned(t))

\* sub in s
Contains(s, sub) ==
    \E i \in 1..(Len(s) - Len(sub) + 1) : SubSeq(s, i, i + Len(sub) - 1) = sub

\* \w of the re module, on ASCII
IsWordChar(c) ==
    \/ IsDigit(c)
    \/ c = "_"
    \/ \E i \in 1..26 : LowerChars[i] = c \/ UpperChars[i] = c

\* re.search(r'\b(w)\b', s) for a literal w that starts and ends with a word character
WordSearch(s, w) ==
    \E i \in 1..(Len(s) - Len(w) + 1) :
        /\ SubSeq(s, i, i + Len(w) - 1) = w
        /\ (i = 1 \/ ~IsWordChar(CharAt(s, i - 1)))
        /\ (i + Len(w) - 1 = Len(s) \/ ~IsWordChar(CharAt(s, i + Len(w))))

\* re.search(r'\b(w1|w2|...)\b', s)
AnyWordSearch(s, ws) == \E w \in ws : WordSearch(s, w)

-----------------------------------------------------------------------------
(* Dicts: quiz_data is a dict; keys is the set of keys it holds, the other  *)
(* fields are the values under those keys ({} is the dict with no key).     *)

EmptyDict == [keys |-> {}, questions |-> <<>>, quiz_type |-> "", topic |-> "", error |-> ""]

\* bool(d)
Truthy(d) == d.keys # {}

\* d.get("questions", [])
GetQuestions(d) == IF "questions" \in d.keys THEN d.questions ELSE <<>>

-----------------------------------------------------------------------------
(* QuizState, memory/quiz_state.py *)

\* QuizState() : the dataclass defaults
NewQuizState ==
    [ active                 |-> FALSE,
      mode                   |-> None,
      quiz_type              |-> None,
      current_question_id    |-> None,
      current_question_index |-> 0,
      attempts               |-> 0,
      score                  |-> 0,
      quiz_data              |-> EmptyDict,
      history                |-> <<>>,
      _total_questions       |-> 0,
      _final_score           |-> 0 ]

\* the mode activate() infers from the quiz data
InferMode(quiz_data) ==
    IF Truthy(quiz_data)
    THEN LET quiz_type == Lower(IF "quiz_type" \in quiz_data.keys THEN quiz_data.quiz_type ELSE "")
             topic == Lower(quiz_data.topic)
         IN  IF quiz_type \in {"year", "director", "cast"} THEN quiz_type
             ELSE IF "topic" \in quiz_data.keys
                  THEN IF Contains(topic, "actor") \/ Contains(topic, "cast") THEN "cast"
                       ELSE IF Contains(topic, "director") THEN "director"
                       ELSE "year"
                  ELSE "year"
    ELSE "year"

\* QuizState.activate(quiz_data), question_id left at its default
activate(q, quiz_data) ==
    [ q EXCEPT
        !.active                 = TRUE,
        !.quiz_data              = quiz_data,
        !.current_question_index = 0,
        !.current_question_id    = Some(0),
        !.attempts               = 0,
        !.score                  = 0,
        !.history                = <<>>,
        !._total_questions       = IF Truthy(quiz_data) THEN Len(GetQuestions(quiz_data)) ELSE 0,
        !.mode                   = Some(InferMode(quiz_data)) ]

\* a variant that keeps quiz_data when the quiz is deactivated
deactivate_keeping_quiz_data(q) ==
    [ q EXCEPT
        !.active                 = FALSE,
        !.mode                   = None,
        !.current_question_id    = None,
        !.current_question_index = 0,
        !.attempts               = 0,
        !.score                  = 0,
        !.history                = <<>> ]

\* QuizState.deactivate()
deactivate(q) ==
    [ q EXCEPT
        !.active                 = FALSE,
        !.mode                   = None,
        !.current_question_id    = None,
        !.current_question_index = 0,
        !.attempts               = 0,
        !.score                  = 0,
        !.quiz_data              = EmptyDict,
        !.history                = <<>> ]

increment_attempts(q) == [q EXCEPT !.attempts = @ + 1]

\* a variant that counts a correct answer twice
increment_score_twice(q) == [q EXCEPT !.score = @ + 2]

increment_score(q) == [q EXCEPT !.score = @ + 1]

\* a question as the presentation layer sees it: the answer key popped
WithoutAnswer(question) ==
    [id |-> question.id, question |-> question.question, options |-> question.options]

\* QuizState.get_current_question()
get_current_question(q) ==
    IF ~q.active \/ ~Truthy(q.quiz_data) THEN None
    ELSE IF q.current_question_index >= Len(GetQuestions(q.quiz_data)) THEN None
    ELSE Some(WithoutAnswer(GetQuestions(q.quiz_data)[q.current_question_index + 1]))

\* a variant without the cache: the live length only
live_question_count(q) == Len(GetQuestions(q.quiz_data))

\* QuizState.get_total_questions()
get_total_questions(q) ==
    IF Truthy(q.quiz_data) /\ "questions" \in q.quiz_data.keys
    THEN Len(GetQuestions(q.quiz_data))
    ELSE q._total_questions

\* a variant that deactivates at the end without the _final_score snapshot
advance_without_snapshot(q) ==
    IF ~q.active THEN [q |-> q, ret |-> FALSE]
    ELSE LET q1 == [q EXCEPT !.current_question_index = @ + 1, !.attempts = 0]
         IN  IF q1.current_question_index >= get_total_questions(q1)
             THEN [q |-> deactivate(q1), ret |-> FALSE]
             ELSE [q |-> [q1 EXCEPT !.current_question_id =
                              Some(q1.quiz_data.questions[q1.current_question_index + 1].id)],
                   ret |-> TRUE]

\* a variant that moves past the last question without deactivating the quiz
advance_past_the_end(q) ==
    IF ~q.active THEN [q |-> q, ret |-> FALSE]
    ELSE LET q1 == [q EXCEPT !.current_question_index = @ + 1, !.attempts = 0]
         IN  [q |-> q1, ret |-> q1.current_question_index < get_total_questions(q1)]

\* QuizState.advance_to_next_question() : [q |-> the state after, ret |-> the value returned]
advance_to_next_question(q) ==
    IF ~q.active THEN [q |-> q, ret |-> FALSE]
    ELSE LET q1 == [q EXCEPT !.current_question_index = @ + 1, !.attempts = 0]
             total == get_total_questions(q1)
         IN  IF q1.current_question_index >= total
             THEN [q |-> deactivate([q1 EXCEPT !._final_score = q1.score]), ret |-> FALSE]
             ELSE IF /\ Truthy(q1.quiz_data)
                     /\ "questions" \in q1.quiz_data.keys
                     /\ q1.current_question_index < Len(q1.quiz_data.questions)
                  THEN [q |-> [q1 EXCEPT !.current_question_id =
                                  Some(q1.quiz_data.questions[q1.current_question_index + 1].id)],
                        ret |-> TRUE]
                  ELSE [q |-> q1, ret |-> TRUE]

\* a variant that reads the number as a 0-based option index
check_answer_zero_based(q, user_answer) ==
    IF ~q.active \/ ~Truthy(q.quiz_data) THEN [is_correct |-> FALSE, correct_answer |-> None]
    ELSE IF q.current_question_index >= Len(GetQuestions(q.quiz_data))
    THEN [is_correct |-> FALSE, correct_answer |-> None]
    ELSE LET current_q == GetQuestions(q.quiz_data)[q.current_question_index + 1]
             given == Lower(Strip(user_answer))
             wanted == Lower(Strip(current_q.answer))
         IN  [ is_correct |->
                   IF /\ IntParses(given)
                      /\ 0 <= IntValue(given) /\ IntValue(given) < Len(current_q.options)
                   THEN Lower(Strip(current_q.options[IntValue(given) + 1])) = wanted
                   ELSE given = wanted,
               correct_answer |-> Some(current_q.answer) ]

\* QuizState.check_answer(user_answer) : [is_correct, correct_answer]
check_answer(q, user_answer) ==
    IF ~q.active \/ ~Truthy(q.quiz_data) THEN [is_correct |-> FALSE, correct_answer |-> None]
    ELSE IF q.current_question_index >= Len(GetQuestions(q.quiz_data))
    THEN [is_correct |-> FALSE, correct_answer |-> None]
    ELSE LET current_q == GetQuestions(q.quiz_data)[q.current_question_index + 1]
             correct_answer == current_q.answer
             options == current_q.options
             user_answer_normalized == Lower(Strip(user_answer))
             correct_answer_normalized == Lower(Strip(correct_answer))
             is_correct ==
                 IF IntParses(user_answer_normalized)
                 THEN LET option_num == IntValue(user_answer_normalized)
                      IN  IF 1 <= option_num /\ option_num <= Len(options)
                          THEN Lower(Strip(options[option_num])) = correct_answer_normalized
                          ELSE user_answer_normalized = correct_answer_normalized
                 ELSE user_answer_normalized = correct_answer_normalized
         IN  [is_correct |-> is_correct, correct_answer |-> Some(correct_answer)]

\* QuizState.record_answer(user_answer, is_correct)
record_answer(q, user_answer, is_correct) ==
    IF ~q.active \/ ~Truthy(q.quiz_data) THEN q
    ELSE IF q.current_question_index >= Len(GetQuestions(q.quiz_data)) THEN q
    ELSE LET current_q == GetQuestions(q.quiz_data)[q.current_question_index + 1]
         IN  [q EXCEPT !.history = Append(@,
                 [ question_id    |-> current_q.id,
                   question       |-> current_q.question,
                   user_answer    |-> user_answer,
                   correct_answer |-> current_q.answer,
                   is_correct     |-> is_correct,
                   attempts       |-> q.attempts,
                   question_index |-> q.current_question_index ])]

\* QuizState.is_complete()
is_complete(q) == q.active /\ q.current_question_index >= get_total_questions(q)

\* QuizState.get_asked_question_ids(), as the set the caller tests membership in
get_asked_question_ids(q) == {q.history[i].question_id : i \in 1..Len(q.history)}


-----------------------------------------------------------------------------
(* QuizController, quiz_controller.py.  A method that changes the state     *)
(* returns [q |-> the QuizState after the call, ...the values returned].    *)
(* User-facing message texts are modelled by the branch that formats them.  *)

\* d.get("topic", "movies")
GetTopic(d) == IF "topic" \in d.keys THEN d.topic ELSE "movies"

\* a variant that moves to the next question once the answer is recorded
handle_answer_auto_advance(q, user_answer) ==
    IF ~q.active \/ is_complete(q)
    THEN [q |-> q, feedback |-> "no_quiz_active", is_correct |-> FALSE, correct_answer |-> None]
    ELSE LET checked == check_answer(increment_attempts(q), user_answer)
             q2 == IF checked.is_correct THEN increment_score(increment_attempts(q))
                   ELSE increment_attempts(q)
             q3 == record_answer(q2, user_answer, checked.is_correct)
         IN  [ q              |-> advance_to_next_question(q3).q,
               feedback       |-> IF checked.is_correct THEN "great_job" ELSE "not_quite",
               is_correct     |-> checked.is_correct,
               correct_answer |-> checked.correct_answer ]

\* QuizController.handle_answer(user_answer)
handle_answer(q, user_answer) ==
    IF ~q.active
    THEN [q |-> q, feedback |-> "no_quiz_active", is_correct |-> FALSE, correct_answer |-> None]
    ELSE IF is_complete(q)
    THEN [q |-> q, feedback |-> "already_complete", is_correct |-> FALSE, correct_answer |-> None]
    ELSE LET q1 == increment_attempts(q)
             checked == check_answer(q1, user_answer)
             q2 == IF checked.is_correct THEN increment_score(q1) ELSE q1
             q3 == record_answer(q2, user_answer, checked.is_correct)
         IN  [ q              |-> q3,
               feedback       |-> IF checked.is_correct THEN "great_job" ELSE "not_quite",
               is_correct     |-> checked.is_correct,
               correct_answer |-> checked.correct_answer ]

\* QuizController.advance_to_next_question()
controller_advance_to_next_question(q) ==
    IF ~q.active THEN [q |-> q, ret |-> FALSE] ELSE advance_to_next_question(q)

\* QuizController.get_current_question_data()
get_current_question_data(q) ==
    IF ~q.active THEN None
    ELSE LET current_q == get_current_question(q)
         IN  IF current_q = None THEN None
             ELSE Some([ quiz_active |-> TRUE,
                         question_id |-> current_q[1].id,
                         question    |-> current_q[1].question,
                         options     |-> current_q[1].options,
                         progress    |-> [ current |-> q.current_question_index + 1,
                                           total   |-> get_total_questions(q) ],
                         topic       |-> GetTopic(q.quiz_data),
                         mode        |-> q.mode ])

\* QuizController.get_completion_data()
get_completion_data(q) ==
    LET final_score == IF q._final_score = 0 THEN q.score ELSE q._final_score
    IN  [ quiz_active   |-> FALSE,
          quiz_complete |-> TRUE,
          score         |-> final_score,
          total         |-> get_total_questions(q),
          topic         |-> IF Truthy(q.quiz_data) THEN GetTopic(q.quiz_data) ELSE "movies" ]

\* the questions activate_quiz keeps: those whose id is not among the asked ids
RECURSIVE FilterAsked(_, _)
FilterAsked(questions, asked_ids) ==
    IF questions = <<>> THEN <<>>
    ELSE IF Head(questions).id \in asked_ids
         THEN FilterAsked(Tail(questions), asked_ids)
         ELSE <<Head(questions)>> \o FilterAsked(Tail(questions), asked_ids)

\* QuizController.activate_quiz(quiz_data)
activate_quiz(q, quiz_data) ==
    LET asked_ids == get_asked_question_ids(q)
        filtered ==
            IF asked_ids # {} /\ GetQuestions(quiz_data) # <<>>
            THEN [quiz_data EXCEPT !.questions = FilterAsked(GetQuestions(quiz_data), asked_ids)]
            ELSE quiz_data
    IN  activate(q, filtered)

\* QuizController.is_last_question()
is_last_question(q) ==
    IF ~q.active THEN FALSE
    ELSE (q.current_question_index + 1) >= get_total_questions(q)

\* QuizController.complete_quiz()
complete_quiz(q) ==
    LET q1 == IF q.active THEN advance_to_next_question(q).q ELSE q
    IN  [q |-> q1, completion |-> get_completion_data(q1)]

\* a variant that leaves the quiz as it is
keep_quiz(q) == q

\* QuizController.deactivate_quiz()
deactivate_quiz(q) == IF q.active THEN deactivate(q) ELSE q

\* stop_patterns of handle_navigation
stop_patterns ==
    { "no", "n", "nope", "stop", "quit", "end", "exit", "done", "finish",
      "enough", "finish game", "quit game", "end game", "stop game",
      "finish quiz", "quit quiz", "end quiz", "stop quiz" }

\* user_lower in stop_patterns or any(phrase in user_lower for phrase in stop_patterns)
IsStopRequest(user_lower) ==
    \/ user_lower \in stop_patterns
    \/ \E phrase \in stop_patterns : Contains(user_lower, phrase)

\* the tier of the completion message
ScoreMessage(final_score, final_total) ==
    IF final_score = final_total THEN "perfect_score"
    ELSE IF 10 * final_score >= 7 * final_total THEN "great_job"
    ELSE "keep_practicing"

\* QuizController.handle_navigation(user_input) :
\* [q, quiz_data (the payload), answer (the message), should_stop_quiz]
handle_navigation(q, user_input) ==
    LET user_lower == Strip(Lower(user_input))
    IN  IF IsStopRequest(user_lower)
        THEN [ q |-> deactivate_quiz(q), quiz_data |-> None, answer |-> "",
               should_stop_quiz |-> TRUE ]
        ELSE LET adv == controller_advance_to_next_question(q)
             IN  IF adv.ret
                 THEN LET current_q_data == get_current_question_data(adv.q)
                      IN  IF current_q_data # None
                          THEN [ q |-> adv.q, quiz_data |-> current_q_data,
                                 answer |-> "question", should_stop_quiz |-> FALSE ]
                          ELSE [ q |-> adv.q, quiz_data |-> None,
                                 answer |-> "could_not_get_next_question",
                                 should_stop_quiz |-> FALSE ]
                 ELSE LET completion_data == get_completion_data(adv.q)
                      IN  [ q |-> adv.q, quiz_data |-> Some(completion_data),
                            answer |-> ScoreMessage(completion_data.score, completion_data.total),
                            should_stop_quiz |-> FALSE ]


-----------------------------------------------------------------------------
(* Intent detection, intent/agent_intent.py and intent/quiz_type_detector.py *)

\* the members of the enum AgentIntent
AgentIntentMembers ==
    { "MOVIE_SEARCH", "MOVIE_COMPARISON", "QUIZ_START", "QUIZ_ANSWER", "QUIZ_NEXT",
      "ACTOR_LOOKUP", "DIRECTOR_LOOKUP", "YEAR_LOOKUP", "POSTER_QUERY", "CORRECTION",
      "CHIT_CHAT" }

\* len(text.split())
RECURSIVE WordCount(_)
WordCount(s) ==
    LET t == LStrip(s)
    IN  IF t = "" THEN 0
        ELSE LET n == CHOOSE k \in 1..Len(t) :
                          /\ \A i \in 1..k : ~IsSpace(CharAt(t, i))
                          /\ (k = Len(t) \/ IsSpace(CharAt(t, k + 1)))
             IN  1 + WordCount(SubSeq(t, n + 1, Len(t)))

\* re.search(r"let'?s\s+play", text) or re.search(r"lets\s+play", text)
LetsPlaySearch(text) ==
    \E i \in 1..Len(text), w \in {"lets", "let's"} :
        /\ i + Len(w) - 1 <= Len(text)
        /\ SubSeq(text, i, i + Len(w) - 1) = w
        /\ \E j \in (i + Len(w) + 1)..(Len(text) - 3) :
               /\ \A k \in (i + Len(w))..(j - 1) : IsSpace(CharAt(text, k))
               /\ SubSeq(text, j, j + 3) = "play"

\* re.search(r'\.(jpg|png|jpeg|image)', text)
ImageNameSearch(text) ==
    \E ext \in {".jpg", ".png", ".jpeg", ".image"} : Contains(text, ext)

\* re.search(r'\bmovies? (from|in) (19|20)\d{2}\b', text)
MoviesOfYearSearch(text) ==
    \E w \in {"movie from ", "movies from ", "movie in ", "movies in "}, c \in {"19", "20"} :
        \E i \in 1..(Len(text) - Len(w) - 3) :
            LET e == i + Len(w) + 3
            IN  /\ SubSeq(text, i, i + Len(w) + 1) = w \o c
                /\ IsDigit(CharAt(text, e - 1)) /\ IsDigit(CharAt(text, e))
                /\ (i = 1 \/ ~IsWordChar(CharAt(text, i - 1)))
                /\ (e = Len(text) \/ ~IsWordChar(CharAt(text, e + 1)))

\* detect_intent, lines 101-150: the classification when no quiz is active
detect_intent_no_quiz(text) ==
    IF \/ AnyWordSearch(text, {"play", "quiz", "trivia", "game", "shoot", "start game"})
       \/ LetsPlaySearch(text)
    THEN "QUIZ_START"
    ELSE IF Contains(text, "poster") \/ ImageNameSearch(text)
    THEN "POSTER_QUERY"
    ELSE IF AnyWordSearch(text, { "actor", "cast", "who star in", "who stars in",
                                  "starring", "played by" })
    THEN "ACTOR_LOOKUP"
    ELSE IF AnyWordSearch(text, {"director", "who directed", "directed by", "helmed by"})
    THEN "DIRECTOR_LOOKUP"
    ELSE IF \/ AnyWordSearch(text, {"year", "from", "released in"})
            \/ MoviesOfYearSearch(text)
    THEN "YEAR_LOOKUP"
    ELSE IF AnyWordSearch(text, { "wrong", "incorrect", "no", "that's not", "thats not",
                                  "not right", "fix", "correction", "mistake", "error",
                                  "actually", "belongs to", "some of these" })
    THEN "CORRECTION"
    ELSE IF AnyWordSearch(text, { "compare", "vs", "versus", "better than",
                                  "difference between", "which is better", "prefer" })
    THEN "MOVIE_COMPARISON"
    ELSE IF \E keyword \in { "movie", "movies", "film", "films", "show", "recommend",
                             "find", "search", "suggest", "watch" } : Contains(text, keyword)
    THEN "MOVIE_SEARCH"
    ELSE IF \/ \E keyword \in { "hi", "hello", "hey", "greetings", "thanks", "thank you",
                                "bye", "goodbye" } : Contains(text, keyword)
            \/ WordCount(text) <= 2
    THEN "CHIT_CHAT"
    ELSE IF WordCount(text) > 2 THEN "MOVIE_SEARCH"
    ELSE "CHIT_CHAT"

\* mutant of detect_intent_in_quiz: without the final return, the text is classified as
\* if no quiz were active
detect_intent_in_quiz_falls_through(text) ==
    IF \/ AnyWordSearch(text, { "next", "next one", "next question", "continue",
                                "skip", "move on", "proceed", "go to next" })
       \/ text \in {"next", "continue", "skip"}
    THEN "QUIZ_NEXT"
    ELSE IF AnyWordSearch(text, { "play", "quiz", "trivia", "game", "start game",
                                  "new quiz", "another quiz" })
    THEN "QUIZ_START"
    ELSE detect_intent_no_quiz(text)

\* detect_intent, lines 86-99: the classification while a quiz is active
detect_intent_in_quiz(text) ==
    IF \/ AnyWordSearch(text, { "next", "next one", "next question", "continue",
                                "skip", "move on", "proceed", "go to next" })
       \/ text \in {"next", "continue", "skip"}
    THEN "QUIZ_NEXT"
    ELSE IF AnyWordSearch(text, { "play", "quiz", "trivia", "game", "start game",
                                  "new quiz", "another quiz" })
    THEN "QUIZ_START"
    ELSE "QUIZ_ANSWER"

\* detect_intent(user_input, quiz_active)
detect_intent(user_input, quiz_active) ==
    LET text == Strip(Lower(user_input))
    IN  IF quiz_active THEN detect_intent_in_quiz(text) ELSE detect_intent_no_quiz(text)

\* re.search(r'\b(w)\s+(quiz|trivia|game|questions?)\b', text) for w in ws
TypedQuizSearch(text, ws) ==
    \E w \in ws, g \in {"quiz", "trivia", "game", "question", "questions"} :
        \E i \in 1..Len(text), j \in 1..Len(text) :
            /\ i + Len(w) - 1 < j
            /\ j + Len(g) - 1 <= Len(text)
            /\ SubSeq(text, i, i + Len(w) - 1) = w
            /\ (i = 1 \/ ~IsWordChar(CharAt(text, i - 1)))
            /\ \A k \in (i + Len(w))..(j - 1) : IsSpace(CharAt(text, k))
            /\ SubSeq(text, j, j + Len(g) - 1) = g
            /\ (j + Len(g) - 1 = Len(text) \/ ~IsWordChar(CharAt(text, j + Len(g))))

\* detect_quiz_type(user_input) : Optional[str]
detect_quiz_type(user_input) ==
    LET text == Strip(Lower(user_input))
    IN  IF \/ AnyWordSearch(text, { "cast", "actor", "actors", "star", "stars", "starring",
                                    "who star in", "who stars in", "who played", "who acted",
                                    "performed by" })
           \/ TypedQuizSearch(text, {"cast", "actor", "star"})
        THEN Some("cast")
        ELSE IF \/ AnyWordSearch(text, { "director", "directed", "who directed", "helmed",
                                         "who helmed", "filmmaker" })
                \/ TypedQuizSearch(text, {"director", "directed"})
        THEN Some("director")
        ELSE IF \/ AnyWordSearch(text, { "year", "years", "released", "when was",
                                         "release date", "what year", "from what year" })
                \/ TypedQuizSearch(text, {"year", "released"})
        THEN Some("year")
        ELSE None


-----------------------------------------------------------------------------
(* MovieAgentService.chat, service.py.  The turn returns                    *)
(*   q               the session's QuizState after the turn                 *)
(*   raised          None, or the exception that left chat()                *)
(*   reasoning_type  of the ChatResponse returned                           *)
(*   quiz_data       of the ChatResponse returned (a payload or None)       *)
(*   agent_run       whether self._agent.run was invoked                    *)
(*   made            the QuizController calls of the turn, in order         *)

\* a handle_answer call made on state q that returned h: what it returned as is_correct
\* and the questions whose history entries it appended
AnswerCall(q, h) ==
    [ op |-> "handle_answer", is_correct |-> h.is_correct,
      recorded |-> { h.q.history[i].question_id : i \in (Len(q.history) + 1)..Len(h.q.history) } ]

\* an advance_to_next_question call
AdvanceCall == [op |-> "advance_to_next_question", is_correct |-> FALSE, recorded |-> {}]

\* the ids the calls `made` recorded answers for
RecordedIds(made) == UNION { made[i].recorded : i \in 1..Len(made) }

\* a ChatResponse returned; listed_types is filled in by the one response whose answer
\* lists quiz types, fallback by the response to a failed agent run
Response(q, reasoning_type, quiz_data, agent_run, made) ==
    [ q |-> q, raised |-> None, reasoning_type |-> reasoning_type, quiz_data |-> quiz_data,
      agent_run |-> agent_run, made |-> made, listed_types |-> None,
      fallback |-> None ]

Raised(q, exception, agent_run, made) ==
    [ q |-> q, raised |-> Some(exception), reasoning_type |-> "", quiz_data |-> None,
      agent_run |-> agent_run, made |-> made, listed_types |-> None,
      fallback |-> None ]

\* get_available_quiz_types_message(failed_type) : the quiz types the message lists
get_available_quiz_types_message(failed_type) == {"year", "director", "cast"} \ {failed_type}

\* chat(), lines 594-613: the response to a quiz generation error
QuizErrorResponse(q, quiz_data_dict, made) ==
    LET quiz_type == IF "quiz_type" \in quiz_data_dict.keys THEN quiz_data_dict.quiz_type
                     ELSE "unknown"
    IN  [ Response(deactivate(q), "quiz_error", None, TRUE, made)
            EXCEPT !.listed_types = Some(get_available_quiz_types_message(quiz_type)) ]

\* _handle_tool_failure: the response to an agent run that raised; confidence 0.0
ToolFailureResponse(q, made) ==
    [ Response(q, "error_handling", None, TRUE, made)
        EXCEPT !.fallback = Some([tools_used |-> {}, confidence |-> 0]) ]

\* d.get("error") is truthy
HasError(d) == "error" \in d.keys /\ d.error # ""

\* MovieAgentService._update_session_state(session_state, tools_used, result)
update_session_state(q, result) ==
    LET q1 ==
            IF "generate_movie_quiz" \in result.tools_used
            THEN IF result.quiz_data # None /\ Truthy(result.quiz_data[1])
                 THEN IF HasError(result.quiz_data[1])
                      THEN [q EXCEPT !.quiz_data = result.quiz_data[1]]
                      ELSE activate_quiz(q, result.quiz_data[1])
                 ELSE activate(q, EmptyDict)
            ELSE q
    IN  IF result.quiz_completed THEN deactivate_quiz(q1) ELSE q1

\* chat(), lines 489-725: the agent returned `result`
chat_agent_result(q, result, made) ==
    LET q1 == update_session_state(q, result)
        generated == "generate_movie_quiz" \in result.tools_used
        quiz_data_dict ==
            IF result.quiz_data # None /\ Truthy(result.quiz_data[1])
            THEN result.quiz_data[1]
            ELSE q1.quiz_data
    IN  IF generated /\ Truthy(quiz_data_dict) /\ HasError(quiz_data_dict)
        THEN QuizErrorResponse(q1, quiz_data_dict, made)
        ELSE IF q1.active /\ "check_quiz_answer" \in result.tools_used /\ ~generated
        THEN IF ~is_complete(q1)
             THEN Response(q1, "tool_calling", get_current_question_data(q1), TRUE, made)
             ELSE Response(q1, "tool_calling",
                           Some([ quiz_active |-> FALSE, quiz_complete |-> TRUE,
                                  score |-> q1.score, total |-> get_total_questions(q1),
                                  topic |-> GetTopic(q1.quiz_data) ]),
                           TRUE, made)
        ELSE Response(q1, "tool_calling", get_current_question_data(q1), TRUE, made)

\* chat(), lines 326-487: the turn is not a quiz answer
chat_general(q, user_message, intent, result, made) ==
    LET intent1 == IF intent = "QUIZ_NEXT" THEN "QUIZ_START" ELSE intent
    IN  IF intent1 = "CHIT_CHAT" THEN Response(q, "chit_chat", None, FALSE, made)
        ELSE LET q1 == IF intent1 = "QUIZ_START" THEN deactivate_quiz(q) ELSE q
                 detected_quiz_type ==
                     IF detect_quiz_type(user_message) # None THEN detect_quiz_type(user_message)
                     ELSE q1.quiz_type
                 q2 == IF intent1 = "QUIZ_START" THEN [q1 EXCEPT !.quiz_type = detected_quiz_type]
                       ELSE q1
             IN  IF intent1 = "QUIZ_START" /\ detected_quiz_type = None
                 THEN Response(q1, "quiz_type_prompt", None, FALSE, made)
                 ELSE IF result.raises
                 THEN ToolFailureResponse(q2, made)
                 ELSE chat_agent_result(q2, result, made)

\* chat(), lines 276-324: handle_answer returned h
chat_answer_graded(q, h, made) ==
    IF is_last_question(h.q)
    THEN LET c == complete_quiz(h.q)
         IN  Response(c.q, "quiz_answer_controller", Some(c.completion), FALSE,
                      made \o << AnswerCall(q, h), AdvanceCall >>)
    ELSE Response(h.q, "quiz_answer_controller", None, FALSE, made \o << AnswerCall(q, h) >>)

\* chat(), lines 271-324: the answer is graded by the controller
chat_graded_answer(q, user_message, made) ==
    chat_answer_graded(q, handle_answer(q, user_message), made)

\* chat(), lines 231-324: intent == QUIZ_ANSWER
chat_quiz_answer(q, user_message, made) ==
    LET recoverable == ~q.active /\ Truthy(q.quiz_data) /\ GetQuestions(q.quiz_data) # <<>>
        q1 == IF recoverable THEN activate_quiz(q, q.quiz_data) ELSE q
    IN  IF ~q1.active THEN Response(q1, "error", None, FALSE, made)
        ELSE chat_graded_answer(q1, user_message, made)

\* the intents chat() lists in exit_quiz_intents
exit_quiz_intents ==
    { "MOVIE_SEARCH", "MOVIE_COMPARISON", "ACTOR_LOOKUP", "DIRECTOR_LOOKUP", "YEAR_LOOKUP",
      "RATING_LOOKUP", "POSTER_QUERY", "CHIT_CHAT" }

\* chat(), lines 199-227.  Building the list exit_quiz_intents evaluates every
\* AgentIntent.<NAME> in it; a name that is no member of the enum raises AttributeError.
chat_after_navigation(q, user_message, intent, quiz_active, result, made) ==
    IF ~(exit_quiz_intents \subseteq AgentIntentMembers)
    THEN Raised(q, "AttributeError", FALSE, made)
    ELSE LET q1 == IF quiz_active /\ intent \in exit_quiz_intents THEN deactivate_quiz(q) ELSE q
             intent1 ==
                 IF /\ quiz_active
                    /\ intent # "QUIZ_NEXT" /\ intent # "QUIZ_START"
                    /\ intent \notin exit_quiz_intents
                 THEN "QUIZ_ANSWER"
                 ELSE intent
         IN  IF intent1 = "QUIZ_ANSWER"
             THEN chat_quiz_answer(q1, user_message, made)
             ELSE chat_general(q1, user_message, intent1, result, made)

\* MovieAgentService.chat(user_message, session_id), the agent answering `result` if asked
chat(q, user_message, result) ==
    LET quiz_active == q.active
        intent == detect_intent(user_message, quiz_active)
        navigates == quiz_active /\ intent = "QUIZ_NEXT"
        nav == handle_navigation(q, user_message)
    IN  IF navigates /\ ~nav.should_stop_quiz
        THEN Response(nav.q, "quiz_navigation", nav.quiz_data, FALSE, << AdvanceCall >>)
        ELSE chat_after_navigation(IF navigates THEN nav.q ELSE q, user_message, intent,
                                   quiz_active, result, <<>>)


-----------------------------------------------------------------------------
(* The inputs the session is driven with *)

\* the questions a generated quiz is made of
Question(id) ==
    CASE id = 1 -> [ id |-> 1, question |-> "What year was X released?",
                     options |-> <<"1990", "1994", "1999">>, answer |-> "1994" ]
      [] id = 2 -> [ id |-> 2, question |-> "Who directed Y?",
                     options |-> <<"Scott", "Lynch", " NOLAN ">>, answer |-> "Nolan" ]
      [] OTHER  -> [ id |-> 3, question |-> "How many sequels did Z have?",
                     options |-> <<"3", "1", "2">>, answer |-> "1" ]

QuestionIds == {1, 2, 3}

\* the question lists of generated quizzes: distinct questions in ascending id order,
\* no more than MaxQuestions of them
QuestionLists ==
    LET IdLists == UNION { [1..n -> QuestionIds] : n \in 0..MaxQuestions }
    IN  { [i \in DOMAIN l |-> Question(l[i])] :
            l \in { m \in IdLists : \A i, j \in DOMAIN m : i < j => m[i] < m[j] } }

\* what generate_movie_quiz returns for a list of questions
GeneratedQuiz(questions) ==
    [ keys |-> {"topic", "quiz_type", "questions"}, questions |-> questions,
      quiz_type |-> "year", topic |-> "Movie trivia", error |-> "" ]

\* what generate_movie_quiz returns when the dataset has no data for the quiz type
GenerationError ==
    [ keys |-> {"topic", "quiz_type", "questions", "error", "note"}, questions |-> <<>>,
      quiz_type |-> "cast", topic |-> "Movie trivia", error |-> "No cast data available" ]

\* a quiz dict without a "questions" key
TopicOnly ==
    [ keys |-> {"topic"}, questions |-> <<>>, quiz_type |-> "", topic |-> "Cast and actors",
      error |-> "" ]

QuizDataInputs == { GeneratedQuiz(l) : l \in QuestionLists } \cup {TopicOnly}

\* the answers submitted to handle_answer
AnswerInputs == {"3", "2"}

\* the texts check_answer is called with
CheckInputs ==
    AnswerInputs \cup { "1", "1994", "1999", " Nolan ", "nolan", "+2", "03", "0", "-1", "4",
                         "yes", "" }

\* the texts handle_navigation is called with
NavigationInputs == {"next", "skip", "stop", "quit quiz", "nope"}

\* the messages of chat turns
ChatInputs == {"yes", "next", "continue", "skip", "no", "stop", "quit", "2", "cast quiz"}

\* what the agent does when chat() runs it
AgentResult(raises, tools_used, quiz_data) ==
    [ raises |-> raises, tools_used |-> tools_used, quiz_data |-> quiz_data,
      quiz_completed |-> FALSE ]

\* what generate_movie_quiz returns when the retriever finds no documents
NoQuizData ==
    [ keys |-> {"topic", "questions", "quiz_type", "note"}, questions |-> <<>>,
      quiz_type |-> "cast", topic |-> "Movie trivia", error |-> "" ]

AgentResults ==
    { AgentResult(TRUE, {}, None),
      AgentResult(FALSE, {"movie_search"}, None),
      AgentResult(FALSE, {"generate_movie_quiz"}, None),
      AgentResult(FALSE, {"generate_movie_quiz"}, Some(GenerationError)),
      AgentResult(FALSE, {"generate_movie_quiz"}, Some(NoQuizData)),
      AgentResult(FALSE, {"generate_movie_quiz"},
                  Some(GeneratedQuiz(<<Question(1), Question(2)>>))) }

-----------------------------------------------------------------------------
(* MovieAgentService: the maps it keeps per session id *)

\* the session ids of the callers
SessionIds == {"a", "b"}
\* most service calls followed
MaxTurns == 4
\* config.memory_max_turns
memory_max_turns == 2

\* MovieAgentService.__init__: empty maps; _session_memory exists if config.enable_memory
NewService(enable_memory) ==
    [ enable_memory |-> enable_memory,
      _states   |-> [s \in SessionIds |-> None],
      _sessions |-> [s \in SessionIds |-> None],
      _contexts |-> [s \in SessionIds |-> None],
      turns     |-> 0 ]

\* an event of the conversation buffer: its type, the user's text (the assistant's
\* answer text is left out) and the intent recorded with a response
Event(type, content, intent) == [type |-> type, content |-> content, intent |-> intent]

\* mutant of get_state: one SessionState for every session id
get_state_shared(m, session_id) ==
    [ m |-> IF m._states["a"] = None
            THEN [m EXCEPT !._states["a"] = Some(NewQuizState)] ELSE m,
      key |-> "a" ]

\* SessionStateManager.get_state: the session's state, created on first use
get_state(m, session_id) ==
    [ m |-> IF m._states[session_id] = None
            THEN [m EXCEPT !._states[session_id] = Some(NewQuizState)] ELSE m,
      key |-> session_id ]

\* seq[-n:] for n >= 0: the last n elements, and the whole list for n = 0, since -0 is 0
SliceLast(seq, n) ==
    IF n = 0 \/ n >= Len(seq) THEN seq ELSE SubSeq(seq, Len(seq) - n + 1, Len(seq))

\* ConversationMemory(max_turns).record(event), on the buffer
ConversationMemory_record(buffer, max_turns, event) ==
    LET appended == Append(buffer, event)
    IN  IF Len(appended) > max_turns THEN SliceLast(appended, max_turns) ELSE appended

\* ConversationMemory.record with the configured max_turns
buffer_record(buffer, event) == ConversationMemory_record(buffer, memory_max_turns, event)

\* `if self._session_memory: self._session_memory.record(session_id, event)`
record(m, session_id, event) ==
    IF ~m.enable_memory THEN m
    ELSE LET buffer == IF m._sessions[session_id] = None THEN <<>> ELSE m._sessions[session_id][1]
         IN  [m EXCEPT !._sessions[session_id] = Some(buffer_record(buffer, event))]

\* SessionMemoryManager.clear_session: the buffer is emptied, the entry stays
clear_session(m, session_id) ==
    IF session_id \in SessionIds /\ m._sessions[session_id] # None
    THEN [m EXCEPT !._sessions[session_id] = Some(<<>>)] ELSE m

\* SessionMemoryManager.clear_all
memory_clear_all(m) == [m EXCEPT !._sessions = [s \in SessionIds |-> None]]

\* SessionContextManager.get_context: the session's context, created on first use
get_context(m, session_id) ==
    IF m._contexts[session_id] = None
    THEN [m EXCEPT !._contexts[session_id] = Some([poster |-> None])] ELSE m

\* SessionContextManager.clear_context: SessionContext.clear_poster() on a known session
clear_context(m, session_id) ==
    IF session_id \in SessionIds /\ m._contexts[session_id] # None
    THEN [m EXCEPT !._contexts[session_id] = Some([poster |-> None])] ELSE m

\* SessionContextManager.clear_all
context_clear_all(m) == [m EXCEPT !._contexts = [s \in SessionIds |-> None]]

\* MovieAgentService.clear_memory(session_id): session_id is None or Some(id);
\* `if session_id:` takes the empty id for no id
clear_memory(m, session_id) ==
    LET given == session_id # None /\ session_id[1] # ""
        m1 == IF ~m.enable_memory THEN m
              ELSE IF given THEN clear_session(m, session_id[1]) ELSE memory_clear_all(m)
    IN  IF given THEN clear_context(m1, session_id[1]) ELSE context_clear_all(m1)

\* the chat responses that are recorded as assistant_response
RecordedResponses ==
    {"quiz_navigation", "quiz_answer_controller", "chit_chat", "tool_calling", "error_handling"}

\* MovieAgentService.chat(user_message, session_id) on the maps; g is the session's
\* state as get_state returned it and r the turn on its QuizState
service_chat(g, user_message, session_id, r) ==
    LET m0 == IF r.agent_run THEN get_context(g.m, session_id) ELSE g.m
        m1 == [m0 EXCEPT !._states[g.key] = Some(r.q)]
    IN  [ m |-> IF r.raised = None /\ r.reasoning_type \in RecordedResponses
                THEN record(m1, session_id,
                            Event("assistant_response", "",
                                  detect_intent(user_message, g.m._states[g.key][1].active)))
                ELSE m1,
          raised |-> r.raised, reasoning_type |-> r.reasoning_type ]

\* the whole turn: the user's message is recorded, the session's state fetched, the
\* turn run on its QuizState
service_turn(m, session_id, user_message, result) ==
    LET g == get_state(record(m, session_id, Event("user_query", user_message, "")), session_id)
    IN  service_chat(g, user_message, session_id,
                     chat(g.m._states[g.key][1], user_message, result))

\* MovieAgentService.analyze_poster(image_path, session_id), the poster read as `title`
analyze_poster(m, title, session_id) ==
    LET m1 == get_context(m, session_id)
        m2 == [m1 EXCEPT !._contexts[session_id] = Some([poster |-> Some(title)])]
    IN  record(m2, session_id, Event("poster_analysis", title, ""))

-----------------------------------------------------------------------------
(* The session: its state after construction and the operations on it *)

\* what `last` holds of a call: the operation, its argument, whether the quiz
\* was active when it was called, and the values it returned
Called(op, input, out) == [op |-> op, input |-> input, was_active |-> qs.active, out |-> out]

Init ==
    /\ qs = NewQuizState
    /\ last = [op |-> "new", input |-> "", was_active |-> FALSE, out |-> <<>>]
    /\ calls = <<>>
    /\ sessions = NewService(FALSE)

\* QuizController(quiz_state).activate_quiz(quiz_data)
ActivateQuiz ==
    \E quiz_data \in QuizDataInputs :
        /\ qs' = activate_quiz(qs, quiz_data)
        /\ last' = Called("activate_quiz", "", quiz_data)
        /\ calls' = <<>>
        /\ UNCHANGED sessions

\* QuizController(quiz_state).handle_answer(user_answer)
HandleAnswer ==
    \E user_answer \in AnswerInputs :
        LET r == handle_answer(qs, user_answer)
        IN  /\ Len(calls) < MaxCalls
            /\ qs' = r.q
            /\ last' = Called("handle_answer", user_answer,
                              [ feedback |-> r.feedback, is_correct |-> r.is_correct,
                                correct_answer |-> r.correct_answer ])
            /\ calls' = Append(calls, AnswerCall(qs, r))
            /\ UNCHANGED sessions

\* QuizController(quiz_state).advance_to_next_question()
AdvanceToNextQuestion ==
    LET r == controller_advance_to_next_question(qs)
    IN  /\ Len(calls) < MaxCalls
        /\ qs' = r.q
        /\ last' = Called("advance_to_next_question", "", [ret |-> r.ret])
        /\ calls' = Append(calls, AdvanceCall)
        /\ UNCHANGED sessions

\* QuizController(quiz_state).handle_navigation(user_input)
HandleNavigation ==
    \E user_input \in NavigationInputs :
        LET r == handle_navigation(qs, user_input)
        IN  /\ Len(calls) < MaxCalls
            /\ qs' = r.q
            /\ last' = Called("handle_navigation", user_input,
                              [ quiz_data |-> r.quiz_data, answer |-> r.answer,
                                should_stop_quiz |-> r.should_stop_quiz ])
            /\ calls' = IF r.should_stop_quiz THEN calls ELSE Append(calls, AdvanceCall)
            /\ UNCHANGED sessions

\* QuizController(quiz_state).complete_quiz()
CompleteQuiz ==
    LET r == complete_quiz(qs)
    IN  /\ Len(calls) < MaxCalls
        /\ qs' = r.q
        /\ last' = Called("complete_quiz", "", [quiz_data |-> Some(r.completion)])
        /\ calls' = IF qs.active THEN Append(calls, AdvanceCall) ELSE calls
        /\ UNCHANGED sessions

\* QuizController(quiz_state).deactivate_quiz()
DeactivateQuiz ==
    /\ qs' = deactivate_quiz(qs)
    /\ last' = Called("deactivate_quiz", "", <<>>)
    /\ UNCHANGED <<calls, sessions>>

\* the turn of user_message ended as r; `agent` is what the agent returned, None when
\* it was not run, unless the turn is `told` what the agent would return
ChatTurn(user_message, result, told, r) ==
    /\ qs' = r.q
    /\ last' = Called("chat", user_message,
                      [ raised |-> r.raised, reasoning_type |-> r.reasoning_type,
                        quiz_data |-> r.quiz_data, agent_run |-> r.agent_run,
                        listed_types |-> r.listed_types, fallback |-> r.fallback,
                        agent |-> IF told \/ r.agent_run THEN Some(result) ELSE None ])
    /\ calls' = calls \o r.made
    /\ UNCHANGED sessions

\* service.chat(user_message, session_id)
Chat ==
    \E user_message \in ChatInputs, result \in AgentResults :
        /\ Len(calls) + 2 <= MaxCalls
        /\ ChatTurn(user_message, result, FALSE, chat(qs, user_message, result))

Next ==
    \/ ActivateQuiz
    \/ HandleAnswer
    \/ AdvanceToNextQuestion
    \/ HandleNavigation
    \/ CompleteQuiz
    \/ DeactivateQuiz
    \/ Chat

Spec == Init /\ [][Next]_vars

-----------------------------------------------------------------------------
(* check_answer on its own: every quiz the inputs can activate, every text *)

InitCheck ==
    /\ qs \in { activate_quiz(NewQuizState, quiz_data) : quiz_data \in QuizDataInputs }
    /\ last = [op |-> "new", input |-> "", was_active |-> FALSE, out |-> <<>>]
    /\ calls = <<>>
    /\ sessions = NewService(FALSE)

\* quiz_state.check_answer(user_answer)
CheckAnswer ==
    \E user_answer \in CheckInputs :
        /\ last' = Called("check_answer", user_answer, check_answer(qs, user_answer))
        /\ UNCHANGED <<qs, calls, sessions>>

NextCheck ==
    \/ CheckAnswer
    \/ AdvanceToNextQuestion

SpecCheck == InitCheck /\ [][NextCheck]_vars

-----------------------------------------------------------------------------
(* What the log of calls and the last call say about a round *)

\* the log is handle_answer, advance_to_next_question, handle_answer, ... in turn
PairedLog(log) ==
    \A i \in 1..Len(log) :
        log[i].op = IF i % 2 = 1 THEN "handle_answer" ELSE "advance_to_next_question"

\* the handle_answer calls of the log that returned is_correct = True
CorrectCount(log) ==
    Cardinality({ i \in 1..Len(log) : log[i].op = "handle_answer" /\ log[i].is_correct })

\* the advance_to_next_question calls of the log
AdvanceCount(log) ==
    Cardinality({ i \in 1..Len(log) : log[i].op = "advance_to_next_question" })

\* the ids of the questions of a quiz dict
QuestionIdsOf(d) == { GetQuestions(d)[i].id : i \in 1..Len(GetQuestions(d)) }

\* the last call was an advance that took the quiz from active to inactive
CompletedByAdvance ==
    /\ ~qs.active
    /\ last.was_active
    /\ \/ last.op \in {"advance_to_next_question", "complete_quiz"}
       \/ last.op = "handle_navigation" /\ ~last.out.should_stop_quiz

\* this step made an advance_to_next_question call
AdvanceStep ==
    /\ Len(calls') > Len(calls)
    /\ calls'[Len(calls')].op = "advance_to_next_question"

\* this step is a chat turn with one of the messages, started on an active quiz
ChatStepOnActiveQuiz(messages) ==
    /\ last'.op = "chat"
    /\ last'.input \in messages
    /\ qs.active

-----------------------------------------------------------------------------
(* The claims *)

\* C1 (as claimed): once the N handle_answer calls of an N-question quiz, each followed
\* by advance_to_next_question, have been made, the controller's score equals the
\* number of those handle_answer calls that returned is_correct = True.
C1_ScoreAfterAllPairs ==
    (/\ CompletedByAdvance
     /\ PairedLog(calls)
     /\ Len(calls) > 0
     /\ Len(calls) = 2 * qs._total_questions)
    => qs.score = CorrectCount(calls)

\* C1 (amended): while the quiz is active the score equals the number of handle_answer
\* calls that returned is_correct = True; the Nth advance deactivates the quiz, which
\* resets score to 0 and leaves that number in _final_score.
C1_ScoreUntilCompletion ==
    /\ (qs.active /\ PairedLog(calls)) => qs.score = CorrectCount(calls)
    /\ (/\ CompletedByAdvance
        /\ PairedLog(calls)
        /\ Len(calls) = 2 * qs._total_questions)
       => (qs.score = 0 /\ qs._final_score = CorrectCount(calls))

\* a two-question quiz answered once right and once wrong, just completed
C1_Witness ==
    /\ CompletedByAdvance
    /\ PairedLog(calls)
    /\ Len(calls) = 4
    /\ qs._total_questions = 2
    /\ CorrectCount(calls) = 1

\* C2: when a quiz has been completed and activate_quiz is called with questions some
\* of which were answered in that round, the quiz activated holds none of the ids
\* answered in that round.
C2_NoQuestionAskedAgain ==
    [][ (/\ last'.op = "activate_quiz"
         /\ CompletedByAdvance
         /\ QuestionIdsOf(last'.out) \cap RecordedIds(calls) # {})
        => (/\ qs'.active
            /\ QuestionIdsOf(qs'.quiz_data) \cap RecordedIds(calls) = {}) ]_vars

\* C3: a chat turn "yes", "next" or "continue" on an active quiz with a following
\* question moves to that question: the index grows by one, the score is unchanged,
\* the quiz stays active and the response carries the next question's payload.
C3_ContinueMovesOn ==
    [][ (/\ ChatStepOnActiveQuiz({"yes", "next", "continue"})
         /\ qs.current_question_index + 1 < Len(GetQuestions(qs.quiz_data)))
        => (/\ qs'.current_question_index = qs.current_question_index + 1
            /\ qs'.score = qs.score
            /\ qs'.active
            /\ last'.out.quiz_data # None
            /\ last'.out.quiz_data = get_current_question_data(qs')) ]_vars

\* C4: on an active quiz handle_navigation("stop"), ("quit quiz") and ("nope") return
\* should_stop_quiz = True and leave the quiz inactive.
C4_StopDeactivates ==
    (/\ last.op = "handle_navigation"
     /\ last.input \in {"stop", "quit quiz", "nope"}
     /\ last.was_active)
    => (last.out.should_stop_quiz /\ ~qs.active)

\* an active quiz was stopped by handle_navigation("quit quiz")
C4_Witness ==
    /\ last.op = "handle_navigation"
    /\ last.input = "quit quiz"
    /\ last.was_active
    /\ last.out.should_stop_quiz
    /\ ~qs.active

\* C5: a chat turn "no", "stop" or "quit" on an active quiz leaves the quiz inactive
\* and makes no handle_answer call.
C5_StopPhraseEndsQuiz ==
    [][ ChatStepOnActiveQuiz({"no", "stop", "quit"})
        => (/\ ~qs'.active
            /\ \A i \in (Len(calls) + 1)..Len(calls') : calls'[i].op # "handle_answer") ]_vars

\* C6: a chat turn on an active quiz whose message is an answer or a continue command
\* is completed by the controller (it returns a quiz_answer_controller or
\* quiz_navigation response) and agent.run is not invoked.
C6_ControllerCompletesTurn ==
    [][ ChatStepOnActiveQuiz({"2", "yes", "next", "continue", "skip"})
        => (/\ ~last'.out.agent_run
            /\ last'.out.raised = None
            /\ last'.out.reasoning_type \in {"quiz_answer_controller", "quiz_navigation"}) ]_vars

C8_CheckAnswerRule ==
    (/\ last.op = "check_answer"
     /\ qs.active
     /\ qs.current_question_index < Len(GetQuestions(qs.quiz_data)))
    => LET current_q == GetQuestions(qs.quiz_data)[qs.current_question_index + 1]
           Same(a, b) == Lower(Strip(a)) = Lower(Strip(b))
           InRange == /\ IntParses(last.input)
                      /\ IntValue(last.input) \in 1..Len(current_q.options)
       IN  /\ last.out.is_correct =
                  IF InRange THEN Same(current_q.options[IntValue(last.input)], current_q.answer)
                  ELSE Same(last.input, current_q.answer)
           /\ last.input = "1994" => (last.out.is_correct = Same("1994", current_q.answer))

\* "1994" was checked against a three-option question whose answer is 1994, and was correct
C8_Witness ==
    /\ last.op = "check_answer"
    /\ last.input = "1994"
    /\ qs.active
    /\ qs.current_question_index < Len(GetQuestions(qs.quiz_data))
    /\ Len(GetQuestions(qs.quiz_data)[qs.current_question_index + 1].options) = 3
    /\ last.out.is_correct

\* C9: get_total_questions() is the cached _total_questions when quiz_data is cleared
\* and the live length of the question list when quiz_data is there; the Nth advance of
\* an N-question quiz leaves the quiz inactive with get_total_questions() = N.
C9_TotalQuestions ==
    /\ [](/\ qs.quiz_data = EmptyDict => get_total_questions(qs) = qs._total_questions
          /\ Truthy(qs.quiz_data) => get_total_questions(qs) = Len(GetQuestions(qs.quiz_data)))
    /\ [][ (/\ qs.active
            /\ AdvanceStep
            /\ Len(GetQuestions(qs.quiz_data)) >= 1
            /\ AdvanceCount(calls') = Len(GetQuestions(qs.quiz_data)))
           => (/\ ~qs'.active
               /\ get_total_questions(qs') = Len(GetQuestions(qs.quiz_data))) ]_vars

\* the second advance of a two-question quiz was made: quiz_data is cleared, the total is 2
C9_Witness ==
    /\ last.op = "advance_to_next_question"
    /\ last.was_active
    /\ ~qs.active
    /\ qs.quiz_data = EmptyDict
    /\ AdvanceCount(calls) = 2
    /\ get_total_questions(qs) = 2

\* C10: when an advance past the last question ends the quiz, the completion payload
\* returned holds the score the quiz had just before and the number of its questions.
C10_CompletionPayload ==
    [][ (/\ qs.active
         /\ ~qs'.active
         /\ AdvanceStep
         /\ last'.op \in {"complete_quiz", "handle_navigation", "chat"})
        => (/\ last'.out.quiz_data # None
            /\ last'.out.quiz_data[1].quiz_complete
            /\ last'.out.quiz_data[1].score = qs.score
            /\ last'.out.quiz_data[1].total = Len(GetQuestions(qs.quiz_data))) ]_vars

\* a two-question quiz answered once right was completed: the payload reports 1 of 2
C10_Witness ==
    /\ last.op \in {"complete_quiz", "handle_navigation"}
    /\ CompletedByAdvance
    /\ last.out.quiz_data # None
    /\ last.out.quiz_data[1].score = 1
    /\ last.out.quiz_data[1].total = 2
    /\ qs._final_score = 1

\* C11: a chat turn classified as a quiz answer does not raise; when the quiz is not
\* active it returns the graded answer of the reactivated quiz or the "no quiz is
\* currently active" response.
C11_AnswerTurnNeverRaises ==
    [][ (/\ last'.op = "chat"
         /\ detect_intent(last'.input, qs.active) = "QUIZ_ANSWER")
        => (/\ last'.out.raised = None
            /\ ~qs.active => last'.out.reasoning_type \in {"quiz_answer_controller", "error"}) ]_vars

-----------------------------------------------------------------------------
(* Chat turns with the agent's answer on record: each turn is told what the agent  *)
(* (and the question generator behind it) returns if the turn runs it.             *)

\* service.chat(user_message, session_id), the agent's answer recorded
ChatTold ==
    \E user_message \in ChatInputs, result \in AgentResults :
        /\ Len(calls) + 2 <= MaxCalls
        /\ ChatTurn(user_message, result, TRUE, chat(qs, user_message, result))

NextAgent ==
    \/ ActivateQuiz
    \/ AdvanceToNextQuestion
    \/ DeactivateQuiz
    \/ ChatTold

SpecAgent == Init /\ [][NextAgent]_vars

\* this step is a chat turn, classified as `intent`, in which the agent would return a
\* result of the set `results`
ChatStepTold(intent, results) ==
    /\ last'.op = "chat"
    /\ detect_intent(last'.input, qs.active) = intent
    /\ last'.out.agent # None
    /\ last'.out.agent[1] \in results

\* C12: a quiz-start turn in which the question generator returns an error payload
\* leaves the quiz inactive and answers with the message that lists the quiz types
\* other than the one that failed.
C12_GenerationErrorListsOtherTypes ==
    [][ ChatStepTold("QUIZ_START", {AgentResult(FALSE, {"generate_movie_quiz"}, Some(GenerationError))})
        => (/\ ~qs'.active
            /\ last'.out.raised = None
            /\ last'.out.reasoning_type = "quiz_error"
            /\ last'.out.listed_types = Some({"year", "director"})) ]_vars

\* the agent called generate_movie_quiz and got no questions: the generator found no
\* documents, or its output could not be parsed
NoQuestionsResults ==
    { AgentResult(FALSE, {"generate_movie_quiz"}, Some(NoQuizData)),
      AgentResult(FALSE, {"generate_movie_quiz"}, None) }

\* C13: no quiz-start turn ends with an active quiz of zero questions; when the
\* generator's output has no questions or cannot be parsed the quiz stays inactive and
\* the turn returns a response without a question.
C13_NoEmptyQuizStarted ==
    [][ (/\ last'.op = "chat"
         /\ detect_intent(last'.input, qs.active) = "QUIZ_START")
        => (/\ ~(qs'.active /\ get_total_questions(qs') = 0)
            /\ ChatStepTold("QUIZ_START", NoQuestionsResults)
               => (/\ ~qs'.active
                   /\ last'.out.raised = None
                   /\ last'.out.quiz_data = None)) ]_vars

-----------------------------------------------------------------------------
(* The service called under several session ids *)

\* the quiz a session is given
SessionQuizInputs == { GeneratedQuiz(<<Question(1), Question(2)>>) }
\* the messages of the sessions' chat turns
SessionChatInputs == {"skip", "next", "2"}
\* the titles read from posters
PosterTitles == {"Inception"}
\* the arguments of clear_memory
ClearInputs == {None} \cup { Some(s) : s \in SessionIds \cup {""} }

\* what `last` holds of a service call
ServiceCalled(op, session_id, input, out) ==
    [ op |-> op, input |-> input, was_active |-> FALSE, out |-> out, session_id |-> session_id ]

\* one more service call was made
Turn(m) == [m EXCEPT !.turns = @ + 1]

InitSessions ==
    /\ qs = NewQuizState
    /\ last = [op |-> "new", input |-> "", was_active |-> FALSE, out |-> <<>>]
    /\ calls = <<>>
    /\ sessions \in { NewService(enable_memory) : enable_memory \in BOOLEAN }

\* QuizController(get_state(session_id).get_quiz_state()).activate_quiz(quiz_data)
SessionActivateQuiz ==
    \E session_id \in SessionIds, quiz_data \in SessionQuizInputs :
        LET g == get_state(sessions, session_id)
        IN  /\ sessions.turns < MaxTurns
            /\ sessions' = Turn([g.m EXCEPT !._states[g.key] = Some(activate_quiz(@[1], quiz_data))])
            /\ last' = ServiceCalled("activate_quiz", session_id, "", quiz_data)
            /\ UNCHANGED <<qs, calls>>

\* the turn of user_message under session_id ended as t
SessionChatTurn(session_id, user_message, t) ==
    /\ sessions' = Turn(t.m)
    /\ last' = ServiceCalled("chat", session_id, user_message,
                             [raised |-> t.raised, reasoning_type |-> t.reasoning_type])
    /\ UNCHANGED <<qs, calls>>

\* service.chat(user_message, session_id)
SessionChat ==
    \E session_id \in SessionIds, user_message \in SessionChatInputs, result \in AgentResults :
        /\ sessions.turns < MaxTurns
        /\ SessionChatTurn(session_id, user_message,
                           service_turn(sessions, session_id, user_message, result))

\* service.analyze_poster(image_path, session_id)
AnalyzePoster ==
    \E session_id \in SessionIds, title \in PosterTitles :
        /\ sessions.turns < MaxTurns
        /\ sessions' = Turn(analyze_poster(sessions, title, session_id))
        /\ last' = ServiceCalled("analyze_poster", session_id, title, <<>>)
        /\ UNCHANGED <<qs, calls>>

\* service.clear_memory(session_id)
ClearMemory ==
    \E session_id \in ClearInputs :
        /\ sessions.turns < MaxTurns
        /\ sessions' = Turn(clear_memory(sessions, session_id))
        /\ last' = ServiceCalled("clear_memory", "", session_id, <<>>)
        /\ UNCHANGED <<qs, calls>>

NextSessions ==
    \/ SessionActivateQuiz
    \/ SessionChat
    \/ AnalyzePoster
    \/ ClearMemory

SpecSessions == InitSessions /\ [][NextSessions]_vars

\* the session has no active quiz, an empty conversation buffer and no poster context
Cleared(m, s) ==
    /\ m._states[s] = None \/ ~m._states[s][1].active
    /\ m._sessions[s] = None \/ m._sessions[s][1] = <<>>
    /\ m._contexts[s] = None \/ m._contexts[s][1].poster = None

\* the sessions a clear_memory call was for
ClearedSessions(session_id) ==
    IF session_id = None THEN SessionIds ELSE SessionIds \cap {session_id[1]}

\* C14: after clear_memory(s) session s has no active quiz, an empty conversation
\* buffer and no poster context; after clear_memory(None) every session is so
C14_ClearMemoryResetsSession ==
    last.op = "clear_memory" =>
        \A s \in ClearedSessions(last.input) : Cleared(sessions, s)

\* what clear_memory does reset: the conversation buffer and the poster context
C14_BufferAndPosterCleared ==
    last.op = "clear_memory" =>
        \A s \in ClearedSessions(last.input) :
            /\ sessions._sessions[s] = None \/ sessions._sessions[s][1] = <<>>
            /\ sessions._contexts[s] = None \/ sessions._contexts[s][1].poster = None

\* what the service holds of session s
SessionView(m, s) ==
    [ state |-> m._states[s], buffer |-> m._sessions[s], context |-> m._contexts[s] ]

\* the service as it would be had only session s ever called it
Alone(m, s) ==
    [ m EXCEPT !._states   = [t \in SessionIds |-> IF t = s THEN @[t] ELSE None],
               !._sessions = [t \in SessionIds |-> IF t = s THEN @[t] ELSE None],
               !._contexts = [t \in SessionIds |-> IF t = s THEN @[t] ELSE None] ]

\* C15: a chat turn of one session leaves the quiz state, conversation buffer and poster
\* context of every other session as they were, and leaves its own session as the same
\* turn would have left it had the other sessions never called the service
C15_SessionsIsolated ==
    [][ last'.op = "chat" =>
          /\ \A t \in SessionIds \ {last'.session_id} :
                SessionView(sessions', t) = SessionView(sessions, t)
          /\ \E result \in AgentResults :
                SessionView(sessions', last'.session_id)
                  = SessionView(service_turn(Alone(sessions, last'.session_id),
                                             last'.session_id, last'.input, result).m,
                                last'.session_id)
      ]_vars

\* session b's navigation turn was answered and recorded while session a had a quiz
\* under way and a conversation buffer of its own
C15_Witness ==
    /\ last.op = "chat" /\ last.session_id = "b"
    /\ last.out.reasoning_type = "quiz_navigation"
    /\ sessions._states["a"] # None /\ sessions._states["a"][1].active
    /\ sessions._sessions["a"] # None /\ sessions._sessions["a"][1] # <<>>
    /\ sessions._sessions["b"] # None /\ Len(sessions._sessions["b"][1]) = 2

\* the agent raises when it is run
AgentRaises == { result \in AgentResults : result.raises }

\* C16: a chat turn that goes to the agent, in which agent.run raises, does not raise: it
\* returns a response with reasoning_type "error_handling", no tools used and confidence
\* 0.0; and the chat turn that follows such a turn is answered, not raised
C16_AgentFailureContained ==
    [][ /\ ( ChatStepTold("QUIZ_START", AgentRaises) /\ detect_quiz_type(last'.input) # None
             => /\ last'.out.raised = None
                /\ last'.out.reasoning_type = "error_handling"
                /\ last'.out.fallback = Some([tools_used |-> {}, confidence |-> 0]) )
        /\ ( last.op = "chat" /\ last.out.agent # None /\ last.out.agent[1] \in AgentRaises
             /\ last'.op = "chat"
             => last'.out.raised = None )
      ]_vars

\* the agent generates a quiz when it is run
AgentGenerates ==
    { result \in AgentResults :
        /\ ~result.raises /\ result.quiz_data # None
        /\ GetQuestions(result.quiz_data[1]) # <<>> }

\* C17: in a session whose quiz has ended, a chat turn "next" starts a new quiz of the
\* type of the ended one, and does not answer with the prompt for a quiz type
C17_NextRestartsSameType ==
    [][ /\ last'.op = "chat" /\ last'.input = "next"
        /\ ~qs.active /\ qs._total_questions > 0
        /\ last'.out.agent # None /\ last'.out.agent[1] \in AgentGenerates
        => /\ last'.out.raised = None
           /\ last'.out.reasoning_type # "quiz_type_prompt"
           /\ last'.out.agent_run
           /\ qs'.active
           /\ qs'.quiz_data.quiz_type = qs.quiz_data.quiz_type
      ]_vars

-----------------------------------------------------------------------------
(* detect_intent on its own: texts of a few words, with and without a quiz *)

\* most words in a text
MaxWords == 2
\* the words of the texts
IntentWords == {"42", "next", "quiz", "no", "Movie", "hi", "a"}

\* the texts of at most n words, separated by single spaces
RECURSIVE TextsOf(_)
TextsOf(n) ==
    IF n = 1 THEN IntentWords
    ELSE TextsOf(n - 1) \cup { t \o " " \o w : t \in TextsOf(n - 1), w \in IntentWords }

\* the texts detect_intent is called with
IntentInputs == TextsOf(MaxWords) \cup {"", " 42 ", "a a a"}

InitIntent ==
    /\ qs = NewQuizState
    /\ last = [op |-> "new", input |-> "", was_active |-> FALSE, out |-> <<>>]
    /\ calls = <<>>
    /\ sessions = NewService(FALSE)

\* detect_intent(user_input, quiz_active), called once
DetectIntent ==
    \E user_input \in IntentInputs, quiz_active \in BOOLEAN :
        /\ last.op = "new"
        /\ last' = [ op |-> "detect_intent", input |-> user_input, was_active |-> quiz_active,
                     out |-> detect_intent(user_input, quiz_active) ]
        /\ UNCHANGED <<qs, calls, sessions>>

NextIntent == DetectIntent

SpecIntent == InitIntent /\ [][NextIntent]_vars

\* C18: detect_intent maps the text "42" to quiz_answer when quiz_active is true and to
\* movie_search when quiz_active is false
C18_FortyTwoIsSearchWithoutQuiz ==
    last.op = "detect_intent" /\ last.input = "42"
        => last.out = IF last.was_active THEN "QUIZ_ANSWER" ELSE "MOVIE_SEARCH"

\* C18 as amended: detect_intent maps the text "42" to quiz_answer when quiz_active is
\* true and to chit_chat when quiz_active is false
C18_FortyTwoIsChitChatWithoutQuiz ==
    last.op = "detect_intent" /\ last.input = "42"
        => last.out = IF last.was_active THEN "QUIZ_ANSWER" ELSE "CHIT_CHAT"

\* detect_intent classified "42" with no quiz active
C18_Witness ==
    last.op = "detect_intent" /\ last.input = "42" /\ ~last.was_active

-----------------------------------------------------------------------------
(* Title resolution: src/src/movie_agent/resolution *)
(* Confidences are in percent: 1.0 is 100.                                   *)

\* longest candidate list
MaxCandidates == 2
\* most matchers of a policy
MaxMatchers == 3

\* ResolutionResult(canonical_value, confidence, strategy_used, original_query)
ResolutionResult(canonical_value, confidence, strategy_used, original_query) ==
    [ canonical_value |-> canonical_value, confidence |-> confidence,
      strategy_used |-> strategy_used, original_query |-> original_query ]

\* ResolutionResult.is_confident(threshold)
is_confident(result, threshold) == result.confidence >= threshold

\* mutant of ExactTitleMatcher_resolve: the comparison takes letter case into account
ExactTitleMatcher_resolve_case_sensitive(query, candidates) ==
    LET matches == { i \in 1..Len(candidates) : Strip(candidates[i]) = Strip(query) }
    IN  IF matches # {}
        THEN ResolutionResult(Some(candidates[CHOOSE i \in matches : \A j \in matches : i <= j]),
                              100, "exact", query)
        ELSE ResolutionResult(None, 0, "exact", query)

\* ExactTitleMatcher.resolve: the first candidate equal to the query once both are
\* stripped and lowered
ExactTitleMatcher_resolve(query, candidates) ==
    LET query_normalized == Lower(Strip(query))
        matches == { i \in 1..Len(candidates) : Lower(Strip(candidates[i])) = query_normalized }
    IN  IF matches # {}
        THEN ResolutionResult(Some(candidates[CHOOSE i \in matches : \A j \in matches : i <= j]),
                              100, "exact", query)
        ELSE ResolutionResult(None, 0, "exact", query)

\* length of the longest common subsequence of two strings
RECURSIVE LCS(_, _)
LCS(a, b) ==
    IF a = "" \/ b = "" THEN 0
    ELSE IF CharAt(a, 1) = CharAt(b, 1)
    THEN 1 + LCS(SubSeq(a, 2, Len(a)), SubSeq(b, 2, Len(b)))
    ELSE LET x == LCS(SubSeq(a, 2, Len(a)), b)
             y == LCS(a, SubSeq(b, 2, Len(b)))
         IN  IF x >= y THEN x ELSE y

\* rapidfuzz fuzz.ratio: the normalized Indel similarity 2 * LCS / (len(a) + len(b)),
\* in whole percent
ratio(a, b) ==
    IF Len(a) + Len(b) = 0 THEN 100 ELSE (200 * LCS(a, b)) \div (Len(a) + Len(b))

\* FuzzyTitleMatcher(threshold).resolve with the scorer "ratio": process.extractOne
\* gives the first candidate of the highest score
FuzzyTitleMatcher_resolve(threshold, query, candidates) ==
    IF candidates = <<>> THEN ResolutionResult(None, 0, "fuzzy", query)
    ELSE LET best == CHOOSE i \in 1..Len(candidates) :
                         \A j \in 1..Len(candidates) :
                             \/ ratio(query, candidates[i]) > ratio(query, candidates[j])
                             \/ ratio(query, candidates[i]) = ratio(query, candidates[j]) /\ i <= j
             confidence == ratio(query, candidates[best])
         IN  IF confidence >= threshold
             THEN ResolutionResult(Some(candidates[best]), confidence, "fuzzy", query)
             ELSE ResolutionResult(None, 0, "fuzzy", query)

\* mutant of track_best: a later result of the same confidence replaces the best one
track_best_or_equal(best_result, result) ==
    IF best_result = None \/ result.confidence >= best_result[1].confidence
    THEN Some(result) ELSE best_result

\* ResolutionPolicy.resolve, lines 69-70: the best result so far
track_best(best_result, result) ==
    IF best_result = None \/ result.confidence > best_result[1].confidence
    THEN Some(result) ELSE best_result

\* ResolutionPolicy.resolve, the loop from matcher i on; results[i] is what matcher i
\* returns for the query and the candidates; `consulted` counts the matchers called
RECURSIVE resolve_from(_, _, _, _, _)
resolve_from(results, confidence_threshold, query, i, best_result) ==
    IF i > Len(results)
    THEN [ result |-> IF best_result # None THEN best_result[1]
                      ELSE ResolutionResult(None, 0, "none", query),
           consulted |-> Len(results) ]
    ELSE IF is_confident(results[i], confidence_threshold)
    THEN [ result |-> results[i], consulted |-> i ]
    ELSE resolve_from(results, confidence_threshold, query, i + 1,
                      track_best(best_result, results[i]))

\* ResolutionPolicy(matchers, confidence_threshold).resolve(query, candidates)
ResolutionPolicy_resolve(results, confidence_threshold, query) ==
    resolve_from(results, confidence_threshold, query, 1, None)

\* the queries and the titles of the candidate lists
Queries == {"Heat", "heat", "HEAT", " Heat", "Haet", "Up"}
Titles == {"Heat", "HEAT ", "Hat", "Up"}
CandidateLists == UNION { [1..n -> Titles] : n \in 0..MaxCandidates }
\* the policy's confidence_threshold, the fuzzy matcher's threshold
PolicyThresholds == {50, 75, 95, 120}
FuzzyThresholds == {50, 75}
\* what a matcher of any kind may return
MatcherConfidences == {0, 60, 80, 100}
MatcherResult ==
    { ResolutionResult(None, 0, "matcher", "Heat") } \cup
    { ResolutionResult(Some(title), c, "matcher", "Heat") :
        title \in {"Heat", "Hat"}, c \in MatcherConfidences \ {0} }
MatcherResults == UNION { [1..n -> MatcherResult] : n \in 1..MaxMatchers }

\* what `last` holds of a resolve call
Resolved(query, candidates, results, confidence_threshold, r) ==
    [ op |-> "resolve", was_active |-> FALSE,
      input |-> [ query |-> query, candidates |-> candidates, results |-> results,
                  confidence_threshold |-> confidence_threshold ],
      out |-> r ]

InitResolution ==
    /\ qs = NewQuizState
    /\ last = [op |-> "new", input |-> "", was_active |-> FALSE, out |-> <<>>]
    /\ calls = <<>>
    /\ sessions = NewService(FALSE)

\* ResolutionPolicy([ExactTitleMatcher(), FuzzyTitleMatcher(threshold)], t).resolve(...),
\* called once
ResolveTitle ==
    \E query \in Queries, candidates \in CandidateLists,
       confidence_threshold \in PolicyThresholds, threshold \in FuzzyThresholds :
        LET results == << ExactTitleMatcher_resolve(query, candidates),
                          FuzzyTitleMatcher_resolve(threshold, query, candidates) >>
        IN  /\ last.op = "new"
            /\ last' = Resolved(query, candidates, results, confidence_threshold,
                                ResolutionPolicy_resolve(results, confidence_threshold, query))
            /\ UNCHANGED <<qs, calls, sessions>>

\* ResolutionPolicy(matchers, t).resolve(...) for matchers of any kind, called once
ResolveWith ==
    \E results \in MatcherResults, confidence_threshold \in PolicyThresholds :
        /\ last.op = "new"
        /\ last' = Resolved("Heat", <<"Heat">>, results, confidence_threshold,
                            ResolutionPolicy_resolve(results, confidence_threshold, "Heat"))
        /\ UNCHANGED <<qs, calls, sessions>>

NextResolution ==
    \/ ResolveTitle
    \/ ResolveWith

SpecResolution == InitResolution /\ [][NextResolution]_vars

\* the call was resolve() of the exact-then-fuzzy policy
TitleResolved ==
    /\ last.op = "resolve"
    /\ Len(last.input.results) = 2
    /\ last.input.results[1].strategy_used = "exact"
    /\ last.input.results[2].strategy_used = "fuzzy"

\* the candidate list contains the query verbatim up to letter case
ContainsUpToCase(query, candidates) ==
    \E i \in 1..Len(candidates) : Lower(candidates[i]) = Lower(query)

\* C19: when the candidate list contains the query verbatim up to letter case, the
\* exact-then-fuzzy policy returns a result with strategy_used "exact" and confidence 1.0
C19_VerbatimQueryResolvesExact ==
    TitleResolved /\ ContainsUpToCase(last.input.query, last.input.candidates)
        => /\ last.out.result.strategy_used = "exact"
           /\ last.out.result.confidence = 100

\* the query is in the list in another letter case, next to a title the fuzzy matcher
\* scores too, and the policy's threshold is above what any matcher can reach
C19_Witness ==
    /\ TitleResolved
    /\ last.input.query = "heat" /\ last.input.candidates = <<"Hat", "Heat">>
    /\ last.input.confidence_threshold = 120
    /\ last.input.results[2].canonical_value # None
    /\ last.out.consulted = 2

\* the matchers whose result meets the threshold
Meeting(results, confidence_threshold) ==
    { i \in 1..Len(results) : results[i].confidence >= confidence_threshold }

C20_WitnessFirstConfident ==
    /\ last.op = "resolve"
    /\ Len(last.input.results) = 3
    /\ 1 \notin Meeting(last.input.results, last.input.confidence_threshold)
    /\ 2 \in Meeting(last.input.results, last.input.confidence_threshold)
    /\ last.input.results[3].confidence > last.input.results[2].confidence
    /\ last.out.consulted = 2

-----------------------------------------------------------------------------
(* EntityExtractor, resolution/entity_extractor.py.  Positions are Python's *)
(* 0-based offsets: an entity spans query[start_pos:end_pos].               *)

ExtractedEntity(text, start_pos, end_pos) ==
    [text |-> text, start_pos |-> start_pos, end_pos |-> end_pos]

\* query[a:b] for 0 <= a <= b <= len(query)
Slice(query, a, b) == SubSeq(query, a + 1, b)

IsQuote(c) == c \in {"\"", "'"}
IsUpperChar(c) == \E i \in 1..26 : UpperChars[i] = c
IsLowerChar(c) == \E i \in 1..26 : LowerChars[i] = c

\* the index of the first quote character after index p, 0 when there is none
NextQuote(query, p) ==
    IF \E j \in (p + 1)..Len(query) : IsQuote(CharAt(query, j))
    THEN CHOOSE j \in (p + 1)..Len(query) :
             /\ IsQuote(CharAt(query, j))
             /\ \A k \in (p + 1)..(j - 1) : ~IsQuote(CharAt(query, k))
    ELSE 0

\* re.finditer(r'["\']([^"\']+)["\']', query) from index p on: the text is
\* group(1), the positions are those of the whole match
RECURSIVE extract_quoted_from(_, _)
extract_quoted_from(query, p) ==
    IF p > Len(query) THEN <<>>
    ELSE LET j == NextQuote(query, p)
         IN  IF IsQuote(CharAt(query, p)) /\ j > p + 1
             THEN <<ExtractedEntity(SubSeq(query, p + 1, j - 1), p - 1, j)>>
                      \o extract_quoted_from(query, j + 1)
             ELSE extract_quoted_from(query, p + 1)

_extract_quoted(query) == extract_quoted_from(query, 1)

action_verbs == {"Find", "Compare", "Search", "Show", "List", "Recommend", "Get", "Give"}
connectors == {"the", "of", "a", "an", "in", "on", "at", "for", "with", "from"}

\* [A-Z][a-z]+ at index i: the index of its last character, 0 when it does not match
RECURSIVE LowerRunEnd(_, _)
LowerRunEnd(query, i) ==
    IF i < Len(query) /\ IsLowerChar(CharAt(query, i + 1)) THEN LowerRunEnd(query, i + 1) ELSE i

WordEnd(query, i) ==
    IF /\ i >= 1 /\ i < Len(query)
       /\ IsUpperChar(CharAt(query, i)) /\ IsLowerChar(CharAt(query, i + 1))
    THEN LowerRunEnd(query, i + 1)
    ELSE 0

\* \s+ from index i: the index after the run, 0 when no whitespace is at i
RECURSIVE SpaceRunEnd(_, _)
SpaceRunEnd(query, i) ==
    IF i <= Len(query) /\ IsSpace(CharAt(query, i)) THEN SpaceRunEnd(query, i + 1) ELSE i

AfterSpaces(query, i) ==
    IF i <= Len(query) /\ IsSpace(CharAt(query, i)) THEN SpaceRunEnd(query, i) ELSE 0

\* (?:\s+(?:the|of|...)\s+[A-Z][a-z]+|\s+[A-Z][a-z]+) after a word ending at e:
\* the index of the last character of the group, 0 when neither branch matches
GroupEnd(query, e) ==
    LET k == AfterSpaces(query, e + 1)
        viaConnector ==
            {WordEnd(query, AfterSpaces(query, k + Len(c))) : c \in
                {c \in connectors : /\ k # 0
                                    /\ k + Len(c) - 1 <= Len(query)
                                    /\ SubSeq(query, k, k + Len(c) - 1) = c
                                    /\ AfterSpaces(query, k + Len(c)) # 0}} \ {0}
    IN  IF viaConnector # {} THEN CHOOSE x \in viaConnector : TRUE
        ELSE IF k # 0 THEN WordEnd(query, k)
        ELSE 0

BoundaryBefore(query, i) == i = 1 \/ ~IsWordChar(CharAt(query, i - 1))
BoundaryAfter(query, e) == e = Len(query) \/ ~IsWordChar(CharAt(query, e + 1))

\* the greedy repetition, then \b: the end of the longest chain of groups whose
\* last word ends at a word boundary, 0 when no chain does
RECURSIVE ChainEnd(_, _)
ChainEnd(query, e) ==
    LET g == GroupEnd(query, e)
        further == IF g = 0 THEN 0 ELSE ChainEnd(query, g)
    IN  IF further # 0 THEN further
        ELSE IF BoundaryAfter(query, e) THEN e
        ELSE 0

\* the pattern of _extract_capitalized_phrases at index i: the index of the last
\* character of the match, 0 when it does not match there
PhraseEnd(query, i) ==
    IF BoundaryBefore(query, i) /\ WordEnd(query, i) # 0
    THEN ChainEnd(query, WordEnd(query, i))
    ELSE 0

\* text.split()
RECURSIVE Split(_)
Split(s) ==
    LET t == LStrip(s)
        n == IF \E i \in 1..Len(t) : IsSpace(CharAt(t, i))
             THEN (CHOOSE i \in 1..Len(t) :
                      /\ IsSpace(CharAt(t, i))
                      /\ \A k \in 1..(i - 1) : ~IsSpace(CharAt(t, k))) - 1
             ELSE Len(t)
    IN  IF t = "" THEN <<>> ELSE <<SubSeq(t, 1, n)>> \o Split(SubSeq(t, n + 1, Len(t)))

\* " ".join(words)
RECURSIVE Join(_)
Join(words) ==
    IF words = <<>> THEN ""
    ELSE IF Len(words) = 1 THEN words[1]
    ELSE words[1] \o " " \o Join(Tail(words))

_is_stop_phrase(text) == text \in {"The Matrix"}

\* new_start = match.start() + len(words[0]) + 1
verb_entity_start(query, start, words) == start + Len(words[1]) + 1

\* the entities one match of the pattern yields (the body of the loop)
phrase_entities(query, i, e) ==
    LET text == SubSeq(query, i, e)
        start == i - 1
        words == Split(text)
    IN  IF words[1] \in action_verbs /\ Len(words) > 1
        THEN LET entity_text == Join(Tail(words))
             IN  IF Len(entity_text) >= 3
                 THEN <<ExtractedEntity(entity_text, verb_entity_start(query, start, words), e)>>
                 ELSE <<>>
        ELSE IF words[1] \in action_verbs THEN <<>>
        ELSE IF _is_stop_phrase(text) THEN <<>>
        ELSE IF Len(text) >= 3 THEN <<ExtractedEntity(text, start, e)>>
        ELSE <<>>

RECURSIVE extract_capitalized_from(_, _)
extract_capitalized_from(query, p) ==
    IF p > Len(query) THEN <<>>
    ELSE LET e == PhraseEnd(query, p)
         IN  IF e # 0
             THEN phrase_entities(query, p, e) \o extract_capitalized_from(query, e + 1)
             ELSE extract_capitalized_from(query, p + 1)

_extract_capitalized_phrases(query) == extract_capitalized_from(query, 1)

_positions_overlap(start1, end1, start2, end2) ==
    ~(end1 <= start2 \/ end2 <= start1)

\* sorted(entities, key=lambda e: (-len(e.text), e.start_pos)): a stable sort
LongerFirst(a, b) ==
    \/ Len(a.text) > Len(b.text)
    \/ Len(a.text) = Len(b.text) /\ a.start_pos < b.start_pos

ByStart(a, b) == a.start_pos < b.start_pos

Before(a, b, by_length) == IF by_length THEN LongerFirst(a, b) ELSE ByStart(a, b)

RECURSIVE InsertSorted(_, _, _)
InsertSorted(sorted, x, by_length) ==
    IF sorted = <<>> THEN <<x>>
    ELSE IF Before(x, Head(sorted), by_length) THEN <<x>> \o sorted
    ELSE <<Head(sorted)>> \o InsertSorted(Tail(sorted), x, by_length)

\* sorted(entities, key=...): a stable sort, by (-len(text), start_pos) or by start_pos
RECURSIVE Sorted(_, _)
Sorted(entities, by_length) ==
    IF entities = <<>> THEN <<>>
    ELSE InsertSorted(Sorted(SubSeq(entities, 1, Len(entities) - 1), by_length),
                      entities[Len(entities)], by_length)

\* the loop of _deduplicate_entities over the sorted entities, from index i on
RECURSIVE deduplicate_from(_, _, _, _, _)
deduplicate_from(sorted_entities, i, seen_positions, seen_texts, deduplicated) ==
    IF i > Len(sorted_entities) THEN deduplicated
    ELSE LET entity == sorted_entities[i]
             text_lower == Strip(Lower(entity.text))
             overlaps == \E s \in seen_positions :
                             _positions_overlap(entity.start_pos, entity.end_pos, s[1], s[2])
         IN  IF text_lower \in seen_texts \/ overlaps
             THEN deduplicate_from(sorted_entities, i + 1, seen_positions, seen_texts, deduplicated)
             ELSE deduplicate_from(sorted_entities, i + 1,
                                   seen_positions \cup {<<entity.start_pos, entity.end_pos>>},
                                   seen_texts \cup {text_lower},
                                   Append(deduplicated, entity))

_deduplicate_entities(entities) ==
    IF entities = <<>> THEN <<>>
    ELSE Sorted(deduplicate_from(Sorted(entities, TRUE), 1, {}, {}, <<>>), FALSE)

\* EntityExtractor.extract
extract(query) ==
    IF query = "" THEN <<>>
    ELSE _deduplicate_entities(_extract_quoted(query) \o _extract_capitalized_phrases(query))

-----------------------------------------------------------------------------
(* MovieTitleResolver and MovieRetriever._resolve_with_entity_extraction    *)

\* MovieTitleResolver(vocabulary_builder, fuzzy_threshold, confidence_threshold);
\* candidates is vocabulary_builder.get_title_candidates()
MovieTitleResolver(candidates, fuzzy_threshold, confidence_threshold) ==
    [ candidates |-> candidates, fuzzy_threshold |-> fuzzy_threshold,
      confidence_threshold |-> confidence_threshold ]

\* MovieTitleResolver.resolve(query)
MovieTitleResolver_resolve(resolver, query) ==
    ResolutionPolicy_resolve(
        << ExactTitleMatcher_resolve(query, resolver.candidates),
           FuzzyTitleMatcher_resolve(resolver.fuzzy_threshold, query, resolver.candidates) >>,
        resolver.confidence_threshold, query).result

\* the default of ResolutionResult.is_confident(threshold=0.75), in percent
is_confident_default_threshold == 75

Min(a, b) == IF a <= b THEN a ELSE b

\* s[:n] and s[n:] for n >= 0
SliceTo(s, n) == SubSeq(s, 1, Min(n, Len(s)))
SliceFrom(s, n) == SubSeq(s, Min(n, Len(s)) + 1, Len(s))

RECURSIVE Reverse(_)
Reverse(seq) == IF seq = <<>> THEN <<>> ELSE Append(Reverse(Tail(seq)), Head(seq))

\* mutant of entity_order: the entities are spliced from left to right
entity_order_forward(entities) == entities

\* reversed(entities)
entity_order(entities) == Reverse(entities)

ResolutionMetadata(original_query, resolved_query, resolution_strategy, resolution_confidence, entities_resolved) ==
    [ original_query |-> original_query, resolved_query |-> resolved_query,
      resolution_strategy |-> resolution_strategy,
      resolution_confidence |-> resolution_confidence,
      entities_resolved |-> entities_resolved ]

\* the loop of _resolve_with_entity_extraction over `ordered`, from index i on; m holds
\* the loop's variables
RECURSIVE resolve_entities_from(_, _, _, _)
resolve_entities_from(resolver, ordered, i, m) ==
    IF i > Len(ordered) THEN m
    ELSE LET entity == ordered[i]
             result == MovieTitleResolver_resolve(resolver, entity.text)
         IN  IF is_confident(result, is_confident_default_threshold)
             THEN resolve_entities_from(resolver, ordered, i + 1,
                    [ resolved_query |->
                          SliceTo(m.resolved_query, entity.start_pos)
                              \o result.canonical_value[1]
                              \o SliceFrom(m.resolved_query, entity.end_pos),
                      entities_resolved |->
                          Append(m.entities_resolved,
                                 [ original |-> entity.text,
                                   resolved |-> result.canonical_value[1],
                                   strategy |-> result.strategy_used,
                                   confidence |-> result.confidence ]),
                      resolution_strategy |->
                          IF m.resolution_strategy = None THEN Some(result.strategy_used)
                          ELSE m.resolution_strategy,
                      resolution_confidence |->
                          IF \/ m.resolution_confidence = None
                             \/ result.confidence < m.resolution_confidence[1]
                          THEN Some(result.confidence)
                          ELSE m.resolution_confidence ])
             ELSE resolve_entities_from(resolver, ordered, i + 1, m)

\* MovieRetriever._resolve_with_entity_extraction(query), for the entities extracted
_resolve_with_entity_extraction(resolver, query, entities) ==
    LET m == resolve_entities_from(resolver, entity_order(entities), 1,
                 [ resolved_query |-> query, entities_resolved |-> <<>>,
                   resolution_strategy |-> None, resolution_confidence |-> None ])
    IN  ResolutionMetadata(query, m.resolved_query, m.resolution_strategy,
                           m.resolution_confidence, m.entities_resolved)

\* the words of the queries; a query is up to MaxQueryWords of them, joined by a space
MaxQueryWords == 3
QueryWords == {"Find", "Haet", "Het", "and", "\"Heat\"", "'the Heat'", " "}
RetrieverQueries == { Join(ws) : ws \in UNION { [1..n -> QueryWords] : n \in 1..MaxQueryWords } }
\* the titles of the vocabulary, and the thresholds of the resolver
TitleCandidates == <<"Heat", "Up">>
Resolvers ==
    { MovieTitleResolver(TitleCandidates, 75, 75),
      MovieTitleResolver(TitleCandidates, 75, 90),
      MovieTitleResolver(TitleCandidates, 50, 50) }

InitRetriever ==
    /\ qs = NewQuizState
    /\ last = [op |-> "new", input |-> "", was_active |-> FALSE, out |-> <<>>]
    /\ calls = <<>>
    /\ sessions = NewService(FALSE)

\* EntityExtractor().extract(query), called once
ExtractEntities ==
    /\ last.op = "new"
    /\ \E query \in RetrieverQueries :
           LET candidates == _extract_quoted(query) \o _extract_capitalized_phrases(query)
           IN  last' = [ op |-> "extract", was_active |-> FALSE, input |-> query,
                         out |-> [ candidates |-> candidates,
                                   entities |-> _deduplicate_entities(candidates) ] ]
    /\ UNCHANGED <<qs, calls, sessions>>

\* MovieRetriever(vector_store, title_resolver=resolver)._resolve_query(query), called once
ResolveQuery ==
    /\ last.op = "new"
    /\ \E query \in RetrieverQueries :
           LET entities == extract(query)
           IN  \E resolver \in Resolvers :
                   last' = [ op |-> "resolve_query", was_active |-> FALSE,
                             input |-> [ query |-> query, resolver |-> resolver ],
                             out |-> [ entities |-> entities,
                                       metadata |-> _resolve_with_entity_extraction(
                                                        resolver, query, entities) ] ]
    /\ UNCHANGED <<qs, calls, sessions>>

NextRetriever ==
    \/ ExtractEntities
    \/ ResolveQuery

SpecRetriever == InitRetriever /\ [][NextRetriever]_vars

\* C21: every entity extract(q) returns has text = q[start_pos:end_pos]
C21_TextIsTheSpan ==
    last.op = "extract" =>
        \A i \in 1..Len(last.out.entities) :
            LET e == last.out.entities[i]
            IN  e.text = Slice(last.input, e.start_pos, e.end_pos)

\* two entities overlap as [start_pos, end_pos) ranges
Overlapping(a, b) == a.start_pos < b.end_pos /\ b.start_pos < a.end_pos

\* the entities returned are pairwise non-overlapping
EntitiesDisjoint ==
    last.op = "extract" =>
        \A i, j \in 1..Len(last.out.entities) :
            i # j => ~Overlapping(last.out.entities[i], last.out.entities[j])

\* C22: the entities of one extract call are pairwise non-overlapping, and a kept entity
\* is longer than every candidate it overlaps, or as long and not to the right of it
C22_LongerLeftmostKept ==
    last.op = "extract" =>
        /\ \A i, j \in 1..Len(last.out.entities) :
               i # j => ~Overlapping(last.out.entities[i], last.out.entities[j])
        /\ \A i \in 1..Len(last.out.entities), k \in 1..Len(last.out.candidates) :
               LET e == last.out.entities[i]
                   c == last.out.candidates[k]
               IN  Overlapping(e, c) =>
                       \/ Len(c.text) < Len(e.text)
                       \/ Len(c.text) = Len(e.text) /\ e.start_pos <= c.start_pos

\* the entity resolves confidently: is_confident() of its resolution
ResolvesConfidently(resolver, entity) ==
    is_confident(MovieTitleResolver_resolve(resolver, entity.text),
                 is_confident_default_threshold)

\* the entities of the last _resolve_query call that resolve confidently
ConfidentEntities ==
    { i \in 1..Len(last.out.entities) :
        ResolvesConfidently(last.input.resolver, last.out.entities[i]) }

\* the query from offset `from` on, with the span of every confident entity from the
\* i-th on replaced by its canonical value, built from left to right
RECURSIVE Respelled(_, _, _, _, _)
Respelled(query, entities, resolver, i, from) ==
    IF i > Len(entities) THEN Slice(query, from, Len(query))
    ELSE LET e == entities[i]
         IN  Slice(query, from, e.start_pos)
                 \o (IF ResolvesConfidently(resolver, e)
                     THEN MovieTitleResolver_resolve(resolver, e.text).canonical_value[1]
                     ELSE Slice(query, e.start_pos, e.end_pos))
                 \o Respelled(query, entities, resolver, i + 1, e.end_pos)

Replaced(entity) ==
    \E k \in 1..Len(last.out.metadata.entities_resolved) :
        last.out.metadata.entities_resolved[k].original = entity.text

\* the resolution of the entity meets the resolver's configured confidence_threshold
MeetsConfigured(resolver, entity) ==
    is_confident(MovieTitleResolver_resolve(resolver, entity.text),
                 resolver.confidence_threshold)

\* C24: an extracted entity is replaced if and only if its resolution confidence is at
\* least the resolver's configured confidence threshold, and when no entity meets that
\* threshold the query is returned unmodified
C24_ReplacedIffConfiguredThreshold ==
    last.op = "resolve_query" =>
        /\ \A i \in 1..Len(last.out.entities) :
               Replaced(last.out.entities[i])
                   <=> MeetsConfigured(last.input.resolver, last.out.entities[i])
        /\ (\A i \in 1..Len(last.out.entities) :
                ~MeetsConfigured(last.input.resolver, last.out.entities[i]))
               => last.out.metadata.resolved_query = last.input.query

\* the same with the default threshold of is_confident(): what the code does
ReplacedIffDefaultThreshold ==
    last.op = "resolve_query" =>
        \A i \in 1..Len(last.out.entities) :
            Replaced(last.out.entities[i])
                <=> ResolvesConfidently(last.input.resolver, last.out.entities[i])

-----------------------------------------------------------------------------
(* VocabularyBuilder, resolution/vocabulary_builder.py *)

\* the characters of the names, in code point order
CodePointOrder == <<" ">> \o DigitChars \o UpperChars \o LowerChars
Ord(c) == CHOOSE i \in 1..Len(CodePointOrder) : CodePointOrder[i] = c

\* a < b for two str: the order sorted() uses
RECURSIVE StrLess(_, _)
StrLess(a, b) ==
    IF b = "" THEN FALSE
    ELSE IF a = "" THEN TRUE
    ELSE IF Head(a) = Head(b) THEN StrLess(Tail(a), Tail(b))
    ELSE Ord(Head(a)) < Ord(Head(b))

\* sorted(list(s)) for a set of str
RECURSIVE SortedList(_)
SortedList(s) ==
    IF s = {} THEN <<>>
    ELSE LET least == CHOOSE x \in s : \A y \in s \ {x} : StrLess(x, y)
         IN  <<least>> \o SortedList(s \ {least})

\* the fields of Movie the builder reads
Movie(title, director, stars) == [title |-> title, director |-> director, stars |-> stars]

\* the elements of a list
Elements(seq) == { seq[i] : i \in 1..Len(seq) }

\* VocabularyBuilder(movies): _build_vocabulary fills the three sets
VocabularyBuilder(movies) ==
    [ _titles    |-> { movies[i].title : i \in { j \in 1..Len(movies) : movies[j].title # "" } },
      _directors |-> { movies[i].director[1] :
                          i \in { j \in 1..Len(movies) : movies[j].director # None } },
      _actors    |-> UNION { Elements(movies[i].stars) : i \in 1..Len(movies) } ]

get_titles(v) == SortedList(v._titles)
get_directors(v) == SortedList(v._directors)
get_actors(v) == SortedList(v._actors)

\* mutant of get_all_entities: the sorted union of the three sets
get_all_entities_sorted_union(v) == SortedList(v._titles \cup v._directors \cup v._actors)

get_all_entities(v) == get_titles(v) \o get_directors(v) \o get_actors(v)

get_title_candidates(v) == get_titles(v)

\* the movie datasets: up to MaxMovies movies
MaxMovies == 2
Movies ==
    { Movie(title, director, stars) :
        title \in {"", "Up", "Heat"},
        director \in {None, Some("Al")},
        stars \in {<<>>, <<"Al">>, <<"Bo", "Al">>} }
MovieLists == UNION { [1..n -> Movies] : n \in 0..MaxMovies }

InitVocabulary ==
    /\ qs = NewQuizState
    /\ last = [op |-> "new", input |-> "", was_active |-> FALSE, out |-> <<>>]
    /\ calls = <<>>
    /\ sessions = NewService(FALSE)

\* VocabularyBuilder(movies) and its five getters, called once
BuildVocabulary ==
    /\ last.op = "new"
    /\ \E movies \in MovieLists :
           LET v == VocabularyBuilder(movies)
           IN  last' = [ op |-> "vocabulary", was_active |-> FALSE, input |-> movies,
                         out |-> [ titles |-> get_titles(v),
                                   directors |-> get_directors(v),
                                   actors |-> get_actors(v),
                                   all_entities |-> get_all_entities(v),
                                   title_candidates |-> get_title_candidates(v) ] ]
    /\ UNCHANGED <<qs, calls, sessions>>

NextVocabulary == BuildVocabulary

SpecVocabulary == InitVocabulary /\ [][NextVocabulary]_vars

\* the list is in ascending order and holds no element twice
StrictlyAscending(seq) == \A i \in 1..(Len(seq) - 1) : StrLess(seq[i], seq[i + 1])

\* C25: each of get_titles(), get_directors(), get_actors() and get_all_entities()
\* returns a list without duplicates in ascending order, and get_all_entities() holds
\* exactly the elements of the other three
C25_AllFourSortedDeduplicated ==
    last.op = "vocabulary" =>
        /\ StrictlyAscending(last.out.titles)
        /\ StrictlyAscending(last.out.directors)
        /\ StrictlyAscending(last.out.actors)
        /\ StrictlyAscending(last.out.all_entities)
        /\ Elements(last.out.all_entities) =
               Elements(last.out.titles) \cup Elements(last.out.directors)
                   \cup Elements(last.out.actors)

\* C25 as amended: get_titles(), get_directors() and get_actors() each return a list
\* without duplicates in ascending order, and get_all_entities() is the three lists one
\* after the other, titles, then directors, then actors
C25_ThreeSortedAllConcatenated ==
    last.op = "vocabulary" =>
        /\ StrictlyAscending(last.out.titles)
        /\ StrictlyAscending(last.out.directors)
        /\ StrictlyAscending(last.out.actors)
        /\ last.out.all_entities =
               last.out.titles \o last.out.directors \o last.out.actors

\* a dataset with two titles given out of order and a person who directs and acts:
\* get_all_entities() names that person twice
C25_Witness ==
    /\ last.op = "vocabulary"
    /\ Len(last.input) = 2
    /\ last.input[1].title = "Up" /\ last.input[2].title = "Heat"
    /\ last.out.titles = <<"Heat", "Up">>
    /\ \E i, j \in 1..Len(last.out.all_entities) :
           i # j /\ last.out.all_entities[i] = last.out.all_entities[j]

-----------------------------------------------------------------------------
(* Chat turns that ask for something else than the quiz *)

\* messages that are explicit non-quiz requests: a movie search, a comparison, small talk
ExplicitRequests == {"find heat", "compare heat and up", "hello"}

\* service.chat(user_message, session_id) for an explicit non-quiz request
ChatRequest ==
    \E user_message \in ExplicitRequests, result \in AgentResults :
        /\ Len(calls) + 2 <= MaxCalls
        /\ ChatTurn(user_message, result, FALSE, chat(qs, user_message, result))

NextRequests ==
    \/ ActivateQuiz
    \/ HandleAnswer
    \/ AdvanceToNextQuestion
    \/ ChatRequest

SpecRequests == Init /\ [][NextRequests]_vars

\* the intents of the explicit non-quiz requests
NonQuizIntents ==
    { "MOVIE_SEARCH", "MOVIE_COMPARISON", "ACTOR_LOOKUP", "DIRECTOR_LOOKUP", "YEAR_LOOKUP",
      "POSTER_QUERY", "CHIT_CHAT" }

\* C26: a chat turn on an active quiz whose message is an explicit non-quiz request
\* deactivates the quiz and is processed with that intent: it does not raise and the
\* message is not graded as a quiz answer
C26_ExplicitRequestLeavesQuiz ==
    [][ (/\ last'.op = "chat"
         /\ qs.active
         /\ last'.input \in ExplicitRequests
         /\ detect_intent(last'.input, FALSE) \in NonQuizIntents)
        => (/\ last'.out.raised = None
            /\ ~qs'.active
            /\ last'.out.reasoning_type # "quiz_answer_controller"
            /\ calls' = calls) ]_vars

-----------------------------------------------------------------------------
(* The desynchronized state the recovery path of chat() is written for *)

\* the session goes on being called: a step of Next is taken whenever one is possible
SpecOngoing == Spec /\ WF_vars(Next)

\* QuizState.active is false while quiz_data still holds a non-empty question list
Desync == ~qs.active /\ GetQuestions(qs.quiz_data) # <<>>

-----------------------------------------------------------------------------
(* ConversationMemory(max_turns), memory/conversation_memory.py: one memory and the *)
(* events recorded in it                                                            *)

\* most events recorded, and the largest max_turns
MaxRecorded == 4
MaxMaxTurns == 3
MemoryEvents == { Event("user_query", "hi", ""), Event("assistant_response", "hello", "") }

\* what `last` holds of a memory: its max_turns and the events recorded so far (input),
\* and its buffer (out)
Memory(op, max_turns, recorded, buffer) ==
    [ op |-> op, was_active |-> FALSE,
      input |-> [ max_turns |-> max_turns, recorded |-> recorded ],
      out |-> buffer ]

\* ConversationMemory(max_turns)
InitMemory ==
    /\ qs = NewQuizState
    /\ \E max_turns \in 0..MaxMaxTurns : last = Memory("memory", max_turns, <<>>, <<>>)
    /\ calls = <<>>
    /\ sessions = NewService(FALSE)

\* memory.record(event)
Record ==
    /\ Len(last.input.recorded) < MaxRecorded
    /\ \E event \in MemoryEvents :
           last' = Memory("record", last.input.max_turns, Append(last.input.recorded, event),
                          ConversationMemory_record(last.out, last.input.max_turns, event))
    /\ UNCHANGED <<qs, calls, sessions>>

NextMemory == Record

SpecMemory == InitMemory /\ [][NextMemory]_vars

\* the last n elements of a list, all of it when it has fewer
MostRecent(seq, n) ==
    IF n >= Len(seq) THEN seq ELSE [ i \in 1..n |-> seq[Len(seq) - n + i] ]

\* C28: after every sequence of record calls on a memory of any max_turns >= 0 the
\* buffer holds at most max_turns events, the most recently recorded ones in the order
\* they were recorded
C28_BoundedFifo ==
    last.op = "record" =>
        /\ Len(last.out) <= last.input.max_turns
        /\ last.out = MostRecent(last.input.recorded, last.input.max_turns)

\* the same for the memories of a positive max_turns
BoundedFifoForPositiveMaxTurns ==
    (last.op = "record" /\ last.input.max_turns > 0) =>
        /\ Len(last.out) <= last.input.max_turns
        /\ last.out = MostRecent(last.input.recorded, last.input.max_turns)

-----------------------------------------------------------------------------
(* Score and position of the quiz of a session *)

\* C29: in every state of a session the score is at most get_total_questions(): a
\* question gives at most one point however many answers are submitted for it
C29_ScoreAtMostTotal == qs.score <= get_total_questions(qs)

\* check_answer and record_answer would take their index-out-of-range branch
IndexOutOfRange(q) ==
    /\ q.active /\ Truthy(q.quiz_data)
    /\ q.current_question_index >= Len(GetQuestions(q.quiz_data))

\* C30: while a quiz that was activated with at least one question is active,
\* 0 <= current_question_index < get_total_questions() and get_current_question() is
\* not None; check_answer and record_answer cannot take their index-out-of-range branch,
\* and handle_navigation never answers "Could not get next question"
C30_IndexInRangeWhileActive ==
    /\ (qs.active /\ qs._total_questions >= 1) =>
           /\ 0 <= qs.current_question_index
           /\ qs.current_question_index < get_total_questions(qs)
           /\ get_current_question(qs) # None
           /\ ~IndexOutOfRange(qs)
    /\ last.op = "handle_navigation" => last.out.answer # "could_not_get_next_question"

\* the quiz of two questions has moved on to its second question and is still active
C30_Witness ==
    /\ qs.active
    /\ qs._total_questions = 2
    /\ qs.current_question_index = 1
    /\ last.op = "handle_navigation"
    /\ last.out.answer = "question"
    /\ get_current_question(qs) # None

====
